---- MODULE Spec2Model ----
(***************************************************************************)
(* retroemu: the libretro host (LibretroHost), its save manager, the frame *)
(* pacing loop and the terminal render scheduler (VideoOutput and its      *)
(* worker), as one state machine.                                          *)
(*                                                                         *)
(* JavaScript runs one handler at a time.  An action is one handler, or    *)
(* the part of an async function between two awaits.  A call into the core *)
(* (retro_init, retro_load_game, retro_run) is synchronous and re-enters   *)
(* the host through the registered callbacks: while inCore # "none" only   *)
(* callback actions and the core's return can happen.                      *)
(***************************************************************************)
EXTENDS Integers, Sequences, FiniteSets, TLC

\* ---------------------------------------------------------------- bounds
MaxTime == 4          \* the clock (ms) stops advancing here
MaxCallbacks == 1     \* callbacks the core makes during one entry-point call
MaxPublicOps == 1     \* reset / saveState / loadState calls in a session
MaxShutdowns == 2     \* shutdown() calls in a session

\* onFrame calls made on the video output directly, and option setter calls
MaxFrames == 4
MaxSettings == 2

\* frame rates (frames per second) a core may declare in its AV descriptor
FpsValues == {250, 500}

VARIABLES
  \* --- LibretroHost fields (part_001:44-69)
  core,              \* this.core: "null" or "module"
  running,           \* this.running
  allocatedStrings,  \* this._allocatedStrings: sequence of foreign pointers
  systemAVInfo,      \* this.systemAVInfo: its timing.fps, 0 standing for null
  hostFrameCount,    \* this._frameCount
  saveManager,       \* this.saveManager is set (constructor argument)
  coreHasSram,       \* the loaded core exposes a save-RAM region (pointer and size)
  \* --- the core module's heap: live blocks as <<pointer, kind>>
  heap,
  nextPtr,
  \* --- positions of the async functions and of the synchronous core call
  loadPc,            \* loadAndStart
  loadError,         \* the error loadAndStart rejected with
  shutdownPc,        \* shutdown
  shutdownCalls,     \* number of shutdown() calls made
  statePc,           \* saveState / loadState
  statePtr,          \* the scratch block saveState holds across its awaits (0: none)
  publicOps,         \* number of reset/saveState/loadState calls made
  inCore,            \* the core entry point executing: "none","init","load_game","run"
  cbCount,           \* callbacks made by the core in the current entry-point call
  \* --- frame pacing (part_001:505-532)
  now,               \* performance.now()
  lastFrameTime,     \* the reference time of _runLoop
  armedTicks,        \* timers (setTimeout / setImmediate) holding tick
  tickDue,           \* earliest time the armed tick can fire
  \* --- history
  loadLog,           \* the calls loadAndStart made on the core and the collaborators
  shutdownLog,       \* the calls the shutdown() calls made, in order
  opLog,             \* the calls reset / saveState / loadState made, in order
  fault,             \* the callback whose exception last crossed into the core
  diagnostics,       \* callback faults recorded by the host
  shutdownRequested, \* the core has sent RETRO_ENVIRONMENT_SHUTDOWN
  cbRet,             \* what the last callback of the entry-point call in progress
                     \* returned to the core (0 outside a call)
  \* --- VideoOutput fields (VideoOutput.js:21-49)
  mode,              \* this.mode
  worker,            \* this.worker: "null" or "worker"
  workerReady,       \* this.workerReady
  pendingFrame,      \* this.pendingFrame
  frameCount,        \* this.frameCount
  renderEveryN,      \* this.renderEveryN
  sdlRenderer,       \* this.sdlRenderer: "null" or "renderer"
  videoInitPc,       \* init(): "idle","awaitWorker","done","failed"
  \* --- the render worker thread (videoWorker.js) and the two message ports
  workerState,       \* "none","loading","ready","failed","dead"
  toWorker,          \* messages posted to the worker, not yet handled
  fromWorker,        \* messages posted by the worker, not yet handled
  posted,            \* 'render' messages posted
  completed,         \* 'frame' messages received
  sdlRenders,        \* frames rendered to the window
  dropped,           \* a frame due for the terminal was discarded, a request being outstanding
  conversions,       \* calls of _convertToRGBA made
  convertedWith,     \* the pixelFormat argument of the last _convertToRGBA call
  \* --- the environment state of LibretroHost (part_001:51-58, 411)
  pixelFormat,       \* this.pixelFormat
  coreVariables,     \* this.coreVariables: the entries [key, description, options, value]
  variablesUpdated,  \* this.variablesUpdated
  loggedEnvCalls,    \* this._loggedEnvCalls
  envLog,            \* the lines appended to the unhandled-command log file
  envCalls,          \* environment calls dispatched in full
  declared,          \* the keys SET_VARIABLES was given so far, each with the last
                     \* text given for it that has the '; ' (none: the empty text)
  envOut,            \* the environment call last dispatched in full since an entry
                     \* point returned: its code, its argument, what it wrote
  lastData,          \* the data pointer of the last video refresh since an entry
                     \* point returned: "none", "null" or "frame"
  \* --- the conversion buffer of VideoOutput (VideoOutput.js:26, 218-240)
  rgbaBuffer,        \* this.rgbaBuffer: 0 (null) or the serial number of the array
  rgbaLength,        \* this.rgbaBuffer.length (0 with no buffer)
  allocated,         \* arrays created by _convertToRGBA: their serials are 1..allocated
  detached,          \* the arrays whose storage was transferred out of the main thread
  convertedPixels,   \* width * height of the last _convertToRGBA call (0: none yet)
  \* --- the render options of VideoOutput (VideoOutput.js:28, 39-43)
  symbols,           \* this.symbols
  colors,            \* this.colors
  fgOnly,            \* this.fgOnly
  dither,            \* this.dither
  displayAspectRatio,\* this.displayAspectRatio, as <<numerator, denominator>>
  settingsCalls,     \* calls of the option setters made
  \* --- what the messages in the two ports carry
  renderRequests,    \* the 'render' messages of toWorker, in the same order
  frameTexts,        \* for each message of fromWorker, the request whose text
                     \* it carries (0: the message carries none)
  \* --- the terminal (process.stdout)
  stdoutWrites,      \* calls of process.stdout.write made by the frame handler
  lastWrite,         \* the content of the last of them, as its parts in order
  \* --- the conversion engine of the render worker (part_004:224-235)
  workerLast,        \* lastSymbols, lastColors, lastFgOnly, lastDither, lastWidth, lastHeight
  canvas,            \* canvas: the configuration of the live canvas, live FALSE for 0
  symbolMap,         \* symbolMap: the symbol set it was built for ("0": none)
  rendered,          \* the last renderFrame call that reached the engine: its
                     \* request, what it rebuilt, the canvas it drew on
  \* --- one pixel through the converter (VideoOutput.js:242-288)
  srcFormat,         \* the pixelFormat argument
  srcPixel,          \* the pixel read from the core's heap, as its two 16-bit halves
  rgbaPixel,         \* the four bytes written for it (<<>>: not converted yet)
  \* --- battery RAM (SaveManager, part_001:546-613)
  saveFile,          \* the .srm file of the ROM: whether it exists, its length, its content
  sramData,          \* the content of the core's save-RAM region
  \* --- InputManager (src/input/InputManager.js)
  currentFrame,      \* _currentFrame: the poll counter
  keyLastPressed,    \* _keyLastPressed: joypad id -> poll counter at the last press
  exitComboHeld,     \* _exitComboHeld
  gamepads,          \* what navigator.getGamepads() holds now, nulls filtered out
  currentGamepads,   \* this.currentGamepads: what the last poll() stored
  sigints,           \* process.emit('SIGINT') calls made by the input manager
  comboRun,          \* history: polls in a row, up to the last, that saw Start and Select held
  lastQuery,         \* history: the last getState call since the last poll, and
                     \* what it returned
  \* --- bin/cli.js
  shuttingDown,      \* its shuttingDown flag
  cliPc,             \* where its shutdown() stands
  quitEvents,        \* history: the quit events delivered so far
  terminalRestores   \* writes of the leave-alternate-screen sequence

hostVars == <<core, running, allocatedStrings, systemAVInfo, hostFrameCount,
              saveManager, coreHasSram, heap, nextPtr>>
ctlVars == <<loadPc, loadError, shutdownPc, shutdownCalls, statePc, statePtr,
             publicOps, inCore, cbCount>>
paceVars == <<now, lastFrameTime, armedTicks, tickDue>>
histVars == <<loadLog, shutdownLog, opLog, fault, diagnostics, shutdownRequested, cbRet>>
videoVars == <<mode, worker, workerReady, pendingFrame, frameCount, renderEveryN,
               sdlRenderer, videoInitPc, posted, completed, sdlRenders, dropped,
               conversions, convertedWith>>
workerVars == <<workerState, toWorker, fromWorker>>
bridgeVars == <<pixelFormat, coreVariables, variablesUpdated, loggedEnvCalls, envLog>>
envVars == <<bridgeVars, envCalls, declared, envOut, lastData>>

bufferVars == <<rgbaBuffer, rgbaLength, allocated, detached, convertedPixels>>
optionVars == <<symbols, colors, fgOnly, dither, displayAspectRatio, settingsCalls>>
portVars == <<renderRequests, frameTexts>>
termVars == <<stdoutWrites, lastWrite>>
canvasVars == <<workerLast, canvas, symbolMap, rendered>>
pixelVars == <<srcFormat, srcPixel, rgbaPixel>>
renderVars == <<bufferVars, optionVars, portVars, termVars, canvasVars, pixelVars>>
saveVars == <<saveFile, sramData>>
inputVars == <<currentFrame, keyLastPressed, exitComboHeld, gamepads, currentGamepads,
               sigints, comboRun, lastQuery>>
cliVars == <<shuttingDown, cliPc, quitEvents, terminalRestores>>
auxVars == <<saveVars, inputVars, cliVars>>

vars == <<hostVars, ctlVars, paceVars, histVars, videoVars, workerVars, envVars,
          renderVars, auxVars>>

Range(s) == {s[i] : i \in 1..Len(s)}

\* constructor: `this.displayAspectRatio = 4 / 3`, as <<numerator, denominator>>
DefaultAspect == <<4, 3>>

\* `let canvas = 0`: no canvas
NoCanvas == [live |-> FALSE, cols |-> 0, rows |-> 0, mode |-> "", map |-> "",
             fgOnly |-> FALSE, dither |-> FALSE]

\* no renderFrame call has reached the engine
NoSettings == [symbols |-> "", colors |-> "", fgOnly |-> FALSE, dither |-> FALSE,
               termCols |-> 0, termRows |-> 0]
NoRender == [request |-> 0, settings |-> NoSettings, config |-> FALSE, map |-> FALSE,
             canvas |-> NoCanvas]

\* no environment call since the last return of an entry point
NoCall == [cmd |-> -1, arg |-> "", array |-> <<>>, value |-> -1, text |-> <<>>]

\* ------------------------------------------------------------------ Init
\* The fields of `new VideoOutput(options)` and `new LibretroHost({...})`, the
\* two message ports, the heap and the history, with nothing done yet.
InitObjects ==
  /\ core = "null"
  /\ running = FALSE
  /\ allocatedStrings = <<>>
  /\ systemAVInfo = [fps |-> 0]
  /\ hostFrameCount = 0
  /\ saveManager \in BOOLEAN
  /\ coreHasSram = FALSE
  /\ heap = {}
  /\ nextPtr = 1
  /\ loadPc = "idle"
  /\ loadError = "none"
  /\ shutdownPc = "idle"
  /\ shutdownCalls = 0
  /\ statePc = "idle"
  /\ statePtr = 0
  /\ publicOps = 0
  /\ inCore = "none"
  /\ cbCount = 0
  /\ now = 0
  /\ lastFrameTime = 0
  /\ armedTicks = 0
  /\ tickDue = 0
  /\ loadLog = <<>>
  /\ shutdownLog = <<>>
  /\ opLog = <<>>
  /\ fault = "none"
  /\ diagnostics = 0
  /\ shutdownRequested = FALSE
  /\ cbRet = 0
  /\ mode \in {"terminal", "sdl", "both"}
  /\ worker = "null"
  /\ workerReady = FALSE
  /\ pendingFrame = FALSE
  /\ frameCount = 0
  /\ renderEveryN = 2
  /\ sdlRenderer = "null"
  /\ videoInitPc = "idle"
  /\ workerState = "none"
  /\ toWorker = <<>>
  /\ fromWorker = <<>>
  /\ posted = 0
  /\ completed = 0
  /\ sdlRenders = 0
  /\ dropped = FALSE
  /\ conversions = 0
  /\ convertedWith = "none"
  /\ pixelFormat = "0RGB1555"
  /\ coreVariables = {}
  /\ variablesUpdated = FALSE
  /\ loggedEnvCalls = {}
  /\ envLog = <<>>
  /\ envCalls = 0
  /\ declared = {}
  /\ envOut = NoCall
  /\ lastData = "none"
  /\ rgbaBuffer = 0
  /\ rgbaLength = 0
  /\ allocated = 0
  /\ detached = {}
  /\ convertedPixels = 0
  /\ symbols = "block"
  /\ colors = "true"
  /\ fgOnly = FALSE
  /\ dither = FALSE
  /\ displayAspectRatio = DefaultAspect
  /\ settingsCalls = 0
  /\ renderRequests = <<>>
  /\ frameTexts = <<>>
  /\ stdoutWrites = 0
  /\ lastWrite = <<>>
  /\ workerLast = [symbols |-> "", colors |-> "", fgOnly |-> FALSE, dither |-> FALSE,
                   width |-> 0, height |-> 0]
  /\ canvas = NoCanvas
  /\ symbolMap = "0"
  /\ rendered = NoRender

\* The state after `new VideoOutput(options)` and `new LibretroHost({...})`:
\* no pixel is waiting at the converter.
NoSaveFile == [exists |-> FALSE, length |-> 0, data |-> ""]

\* No .srm file on disk; the save-RAM region as the core initialises it.
InitSaves ==
  /\ saveFile = NoSaveFile
  /\ sramData = "fresh"

JoypadIds == 0..15
NoPress == -1
NoQuery == [port |-> -1, device |-> 0, index |-> 0, id |-> 0, value |-> 0]

\* The state after `new InputManager(options)`, no gamepad connected.
InitInput ==
  /\ currentFrame = 0
  /\ keyLastPressed = [id \in JoypadIds |-> NoPress]
  /\ exitComboHeld = 0
  /\ gamepads = <<>>
  /\ currentGamepads = <<>>
  /\ sigints = 0
  /\ comboRun = 0
  /\ lastQuery = NoQuery

\* bin/cli.js before any quit event: `let shuttingDown = false`
InitCli ==
  /\ shuttingDown = FALSE
  /\ cliPc = "idle"
  /\ quitEvents = <<>>
  /\ terminalRestores = 0

\* no pixel is waiting at the converter
InitConverter ==
  /\ srcFormat = "none"
  /\ srcPixel = <<0, 0>>
  /\ rgbaPixel = <<>>

Init ==
  /\ InitObjects
  /\ InitConverter
  /\ InitSaves
  /\ InitInput
  /\ InitCli

\* The same, the video output constructed with its default options
\* (`this.mode = options.video || 'terminal'`).
InitHost ==
  /\ Init
  /\ mode = "terminal"

\* ------------------------------------------------------- helper operators
\* performance.now() never runs backwards.  Only tick reads the clock, so it is
\* followed while a tick is armed or running; the model's clock stops at MaxTime.
Advance ==
  /\ armedTicks > 0 \/ inCore = "run"
  /\ now < MaxTime
  /\ now' = now + 1
  /\ UNCHANGED <<hostVars, ctlVars, lastFrameTime, armedTicks, tickDue, histVars,
                 videoVars, workerVars>>
  /\ UNCHANGED envVars
  /\ UNCHANGED renderVars
  /\ UNCHANGED auxVars

\* stop(): this.running = false
Stop == running' = FALSE

\* _runLoop: frameDurationMs = 1000 / fps
FrameDurationMs(av) == 1000 \div av.fps

\* two timers armed where the code arms one (a faulty variant)
TickArmedTwice(armed) == armed + 2

\* tick's re-arming, `setTimeout(tick, ..)` or `setImmediate(tick)` (one of the
\* two), and the first tick() of _runLoop, which ends in it: one more timer
\* holds tick
TickArmed(armed) == armed + 1

\* tick's re-arming: the remaining budget above which the coarse timer is used
CoarseThresholdMs == 2

\* tick's re-arming: `remaining > 2 ? setTimeout(tick, floor(remaining) - 1)
\* : setImmediate(tick)`, as the earliest time the armed tick can fire.
TickDueTime(t, last, dur) ==
  LET remaining == dur - (t - last)
  IN  IF remaining > CoarseThresholdMs THEN t + (remaining - 1) ELSE t

\* a step on every tick (a faulty variant)
StepIsDueAlways(elapsed, dur) == TRUE

\* tick: `if (elapsed >= frameDurationMs)`
StepIsDue(elapsed, dur) == elapsed >= dur

\* the reference moved to the time of the tick (a faulty variant)
NextReferenceNow(t, last, dur) == t

\* the reference moved by one interval whatever has elapsed (a faulty variant)
NextReferenceOneInterval(t, last, dur) == last + dur

\* tick: `lastFrameTime = now - (elapsed % frameDurationMs)`, elapsed = now - lastFrameTime
NextReference(t, last, dur) == t - ((t - last) % dur)

\* the aspect ratio taken as it is given, positive or not (a faulty variant)
AspectAsGiven(ratio) == ratio

\* geometry.aspectRatio of the AV descriptor the core fills, as <<numerator, denominator>>
CoreAspect == <<4, 3>>

\* setAspectRatio: `ratio > 0 ? ratio : 4 / 3`
AspectOrDefault(ratio) == IF ratio[1] > 0 THEN ratio ELSE DefaultAspect

\* the core's glue file as found on disk by loadCore
CoreFiles == [exists : BOOLEAN, exportsApiVersion : BOOLEAN, apiVersion : {0, 1, 2}]

\* loadCore without its API version test (a faulty variant)
LoadCoreAnyVersion(f) ==
  IF ~f.exists THEN [module |-> "null", error |-> "core_not_found"]
  ELSE IF ~f.exportsApiVersion THEN [module |-> "null", error |-> "no_api_version_export"]
  ELSE [module |-> "module", error |-> "none"]

\* loadCore(coreName): the module, or the Error thrown
LoadCore(f) ==
  IF ~f.exists THEN [module |-> "null", error |-> "core_not_found"]
  ELSE IF ~f.exportsApiVersion THEN [module |-> "null", error |-> "no_api_version_export"]
  ELSE IF f.apiVersion # 1 THEN [module |-> "null", error |-> "unsupported_api_version"]
  ELSE [module |-> "module", error |-> "none"]

\* _registerCallbacks: the six retro_set_* calls, in the order made
RegisterCallbacks ==
  <<"retro_set_environment", "retro_set_video_refresh", "retro_set_audio_sample_batch",
    "retro_set_audio_sample", "retro_set_input_poll", "retro_set_input_state">>

\* ---------------------------------------------------------- loadAndStart
\* loadAndStart(romPath, ...) up to `await fs.mkdir(this.saveDir)`
LoadAndStartCall ==
  /\ inCore = "none"
  /\ loadPc = "idle"
  /\ loadPc' = "mkdir"
  /\ loadLog' = Append(loadLog, "loadAndStart")
  /\ UNCHANGED <<shutdownLog, opLog,
                 hostVars, loadError, shutdownPc, shutdownCalls, statePc, statePtr,
                 publicOps, inCore, cbCount, paceVars, fault, diagnostics,
                 shutdownRequested, cbRet, videoVars, workerVars>>
  /\ UNCHANGED envVars
  /\ UNCHANGED renderVars
  /\ UNCHANGED auxVars

\* detectSystem(romPath); on a supported extension, up to `await loadCore(system.core)`
LoadDetectSystem(supported) ==
  /\ inCore = "none"
  /\ loadPc = "mkdir"
  /\ IF supported
       THEN loadPc' = "loadCore" /\ UNCHANGED loadError
       ELSE loadPc' = "failed" /\ loadError' = "unsupported_rom"
  /\ UNCHANGED <<hostVars, shutdownPc, shutdownCalls, statePc, statePtr, publicOps,
                 inCore, cbCount, paceVars, loadLog, shutdownLog, opLog, fault, diagnostics,
                 shutdownRequested, cbRet, videoVars, workerVars>>
  /\ UNCHANGED envVars
  /\ UNCHANGED renderVars
  /\ UNCHANGED auxVars

\* `this.core = await loadCore(..)`, _registerCallbacks(), and the call of
\* retro_init(); or the rejection loadCore threw.
LoadCoreDone(f, sram) ==
  /\ inCore = "none"
  /\ loadPc = "loadCore"
  /\ LET r == LoadCore(f) IN
     IF r.error # "none"
       THEN /\ loadPc' = "failed"
            /\ loadError' = r.error
            /\ UNCHANGED <<core, coreHasSram, inCore, cbCount, loadLog>>
       ELSE /\ core' = r.module
            /\ coreHasSram' = sram
            /\ loadLog' = loadLog \o RegisterCallbacks \o <<"retro_init">>
            /\ inCore' = "init"
            /\ cbCount' = 0
            /\ UNCHANGED <<loadPc, loadError>>
  /\ UNCHANGED <<shutdownLog, opLog,
                 running, allocatedStrings, systemAVInfo, hostFrameCount, saveManager,
                 heap, nextPtr, shutdownPc, shutdownCalls, statePc, statePtr,
                 publicOps, paceVars, fault, diagnostics, shutdownRequested, cbRet,
                 videoVars, workerVars>>
  /\ UNCHANGED envVars
  /\ UNCHANGED renderVars
  /\ UNCHANGED auxVars

\* _loadGame(romData) up to the call of retro_load_game(gameInfoPtr): the ROM
\* copy, the path string (through _allocString) and the game-info record.
LoadGame ==
  LET romPtr == nextPtr
      pathPtr == nextPtr + 1
      gameInfoPtr == nextPtr + 2
  IN  /\ heap' = heap \cup {<<romPtr, "rom">>, <<pathPtr, "string">>,
                            <<gameInfoPtr, "game_info">>}
      /\ nextPtr' = nextPtr + 3
      /\ allocatedStrings' = Append(allocatedStrings, pathPtr)
      /\ loadLog' = loadLog \o <<"malloc", "malloc", "malloc", "retro_load_game">>
      /\ inCore' = "load_game"
      /\ cbCount' = 0

\* retro_init() returns; with romData given, _loadGame follows at once,
\* else `await fs.readFile(this.romPath)`.
InitReturn(romDataGiven) ==
  /\ inCore = "init"
  /\ IF romDataGiven
       THEN LoadGame /\ UNCHANGED loadPc
       ELSE /\ loadPc' = "readFile"
            /\ inCore' = "none"
            /\ cbCount' = 0
            /\ UNCHANGED <<heap, nextPtr, allocatedStrings, loadLog>>
  /\ cbRet' = 0
  /\ UNCHANGED <<shutdownLog, opLog,
                 core, running, systemAVInfo, hostFrameCount, saveManager, coreHasSram,
                 loadError, shutdownPc, shutdownCalls, statePc, statePtr, publicOps,
                 paceVars, fault, diagnostics, shutdownRequested, videoVars,
                 workerVars>>
  /\ envOut' = NoCall
  /\ lastData' = "none"
  /\ UNCHANGED <<bridgeVars, envCalls, declared>>
  /\ UNCHANGED renderVars
  /\ UNCHANGED auxVars

\* fs.readFile resolved: _loadGame(romData)
LoadReadFileDone ==
  /\ inCore = "none"
  /\ loadPc = "readFile"
  /\ LoadGame
  /\ UNCHANGED <<shutdownLog, opLog,
                 core, running, systemAVInfo, hostFrameCount, saveManager, coreHasSram,
                 loadPc, loadError, shutdownPc, shutdownCalls, statePc, statePtr,
                 publicOps, paceVars, fault, diagnostics, shutdownRequested, cbRet,
                 videoVars, workerVars>>
  /\ UNCHANGED envVars
  /\ UNCHANGED renderVars
  /\ UNCHANGED auxVars

\* the block of the heap with a given kind that _loadGame still holds
BlocksOf(kind) == {b \in heap : b[2] = kind}

\* retro_load_game returns `result`, the core's AV descriptor holding `fps` and
\* `aspect` (_getSystemAVInfo replaces an aspect that is not > 0 by 4/3, and
\* setAspectRatio does so again): _loadGame frees the game-info record;
\* on 0 loadAndStart throws, else it reads the AV info, sets the aspect
\* ratio and calls audioBridge.init, awaiting it.
LoadGameReturn(result, fps, aspect) ==
  /\ inCore = "load_game"
  /\ inCore' = "none"
  /\ heap' = heap \ BlocksOf("game_info")
  /\ IF result = 0
       THEN /\ loadPc' = "failed"
            /\ loadError' = "load_game_failed"
            /\ loadLog' = Append(loadLog, "free")
            /\ UNCHANGED <<systemAVInfo, displayAspectRatio>>
       ELSE /\ systemAVInfo' = [fps |-> fps]
            /\ displayAspectRatio' = AspectOrDefault(AspectOrDefault(aspect))
            /\ loadPc' = "audioInit"
            /\ loadLog' = loadLog \o <<"free", "malloc", "retro_get_system_av_info", "free",
                                "setAspectRatio", "audio_init">>
            /\ UNCHANGED loadError
  /\ cbCount' = 0
  /\ cbRet' = 0
  /\ UNCHANGED <<shutdownLog, opLog,
                 core, running, allocatedStrings, hostFrameCount, saveManager,
                 coreHasSram, nextPtr, shutdownPc, shutdownCalls, statePc, statePtr,
                 publicOps, paceVars, fault, diagnostics, shutdownRequested,
                 videoVars, workerVars>>
  /\ envOut' = NoCall
  /\ lastData' = "none"
  /\ UNCHANGED <<bridgeVars, envCalls, declared>>
  /\ UNCHANGED <<bufferVars, symbols, colors, fgOnly, dither, settingsCalls, portVars,
                 termVars, canvasVars, pixelVars, auxVars>>

\* the tail of loadAndStart: retro_set_controller_port_device, running = true,
\* and _runLoop() with its first, synchronous tick() (elapsed is 0: no step).
StartLoop(before) ==
  /\ running' = TRUE
  /\ loadPc' = "done"
  /\ loadLog' = loadLog \o before \o <<"retro_set_controller_port_device", "running">>
  /\ lastFrameTime' = now
  /\ armedTicks' = TickArmed(armedTicks)
  /\ tickDue' = TickDueTime(now, now, FrameDurationMs(systemAVInfo))
  /\ UNCHANGED now

\* audioBridge.init resolved: with a save manager, the SRAM debug dump up to
\* `await fs.appendFile`; without one, the tail.
LoadAudioInitDone ==
  /\ inCore = "none"
  /\ loadPc = "audioInit"
  /\ IF saveManager
       THEN /\ loadPc' = "appendFile"
            /\ loadLog' = loadLog \o <<"retro_get_memory_data", "retro_get_memory_size">>
            /\ UNCHANGED <<running, paceVars>>
       ELSE StartLoop(<<>>)
  /\ UNCHANGED <<shutdownLog, opLog,
                 core, allocatedStrings, systemAVInfo, hostFrameCount, saveManager,
                 coreHasSram, heap, nextPtr, loadError, shutdownPc, shutdownCalls,
                 statePc, statePtr, publicOps, inCore, cbCount, fault, diagnostics,
                 shutdownRequested, cbRet, videoVars, workerVars>>
  /\ UNCHANGED envVars
  /\ UNCHANGED renderVars
  /\ UNCHANGED auxVars

\* fs.appendFile resolved and loadSRAM called but not awaited (a faulty variant)
LoadAppendFileDoneNoAwait ==
  /\ inCore = "none"
  /\ loadPc = "appendFile"
  /\ StartLoop(<<"loadSRAM">>)
  /\ UNCHANGED <<shutdownLog, opLog,
                 core, allocatedStrings, systemAVInfo, hostFrameCount, saveManager,
                 coreHasSram, heap, nextPtr, loadError, shutdownPc, shutdownCalls,
                 statePc, statePtr, publicOps, inCore, cbCount, fault, diagnostics,
                 shutdownRequested, cbRet, videoVars, workerVars>>
  /\ UNCHANGED envVars
  /\ UNCHANGED renderVars
  /\ UNCHANGED auxVars

\* fs.appendFile resolved: `await this.saveManager.loadSRAM(core, romPath)`,
\* which reads the region's pointer and size and, if both are set, awaits
\* fs.readFile of the save file.
LoadAppendFileDone ==
  /\ inCore = "none"
  /\ loadPc = "appendFile"
  /\ loadPc' = "loadSRAM"
  /\ loadLog' = loadLog \o <<"loadSRAM", "retro_get_memory_data", "retro_get_memory_size">>
  /\ UNCHANGED <<shutdownLog, opLog,
                 hostVars, loadError, shutdownPc, shutdownCalls, statePc, statePtr,
                 publicOps, inCore, cbCount, paceVars, fault, diagnostics,
                 shutdownRequested, cbRet, videoVars, workerVars>>
  /\ UNCHANGED envVars
  /\ UNCHANGED renderVars
  /\ UNCHANGED auxVars

\* the size retro_get_memory_size reports for a core that has save RAM
SramSize == 2

\* loadSRAM that copies whatever file it finds (a faulty variant)
LoadSRAMAnyLength(hasRegion, region, file) ==
  IF ~hasRegion THEN region
  ELSE IF file.exists THEN file.data ELSE region

\* loadSRAM: the content of the region when it resolves. `if (!dataPtr ||
\* !size) return`; a readFile that fails is caught; the data are copied only
\* `if (data.length === size)`.
LoadSRAM(hasRegion, region, file) ==
  IF ~hasRegion THEN region
  ELSE IF file.exists /\ file.length = SramSize THEN file.data ELSE region

\* loadSRAM resolved (file copied, size mismatch, or no file: never a throw):
\* the tail.
LoadSRAMDone ==
  /\ inCore = "none"
  /\ loadPc = "loadSRAM"
  /\ StartLoop(<<"loadSRAM_done">>)
  /\ UNCHANGED <<shutdownLog, opLog,
                 core, allocatedStrings, systemAVInfo, hostFrameCount, saveManager,
                 coreHasSram, heap, nextPtr, loadError, shutdownPc, shutdownCalls,
                 statePc, statePtr, publicOps, inCore, cbCount, fault, diagnostics,
                 shutdownRequested, cbRet, videoVars, workerVars>>
  /\ UNCHANGED envVars
  /\ UNCHANGED renderVars
  /\ sramData' = LoadSRAM(coreHasSram, sramData, saveFile)
  /\ UNCHANGED <<saveFile, inputVars, cliVars>>

\* ------------------------------------------------------------ frame pacing
\* a timer holding tick fires only with the render worker idle (a faulty variant)
TimerFiresWorkerIdle ==
  /\ inCore = "none"
  /\ armedTicks > 0
  /\ now >= tickDue
  /\ ~pendingFrame

\* The event loop runs the callback of a timer armed by setTimeout(tick, d) or
\* setImmediate(tick) once its delay has passed and no other code is running.
TimerFires ==
  /\ inCore = "none"
  /\ armedTicks > 0
  /\ now >= tickDue

\* tick(), entered from a timer: returns at once when not running; runs one
\* core step when a frame interval has elapsed (the step is the synchronous
\* call of retro_run, suspended here until RunReturn); else re-arms itself.
Tick ==
  /\ TimerFires
  /\ IF ~running
       THEN /\ armedTicks' = armedTicks - 1
            /\ UNCHANGED <<lastFrameTime, tickDue, inCore, cbCount>>
       ELSE LET elapsed == now - lastFrameTime
                dur == FrameDurationMs(systemAVInfo)
            IN  IF StepIsDue(elapsed, dur)
                  THEN /\ lastFrameTime' = NextReference(now, lastFrameTime, dur)
                       /\ armedTicks' = armedTicks - 1
                       /\ inCore' = "run"
                       /\ cbCount' = 0
                       /\ UNCHANGED tickDue
                  ELSE /\ tickDue' = TickDueTime(now, lastFrameTime, dur)
                       /\ UNCHANGED <<lastFrameTime, armedTicks, inCore, cbCount>>
  /\ UNCHANGED <<hostVars, loadPc, loadError, shutdownPc, shutdownCalls, statePc,
                 statePtr, publicOps, now, loadLog, shutdownLog, opLog, fault, diagnostics,
                 shutdownRequested, cbRet, videoVars, workerVars>>
  /\ UNCHANGED envVars
  /\ UNCHANGED renderVars
  /\ UNCHANGED auxVars

\* retro_run() returns into tick: _frameCount++ and the re-arming.
RunReturn ==
  /\ inCore = "run"
  /\ inCore' = "none"
  /\ hostFrameCount' = hostFrameCount + 1
  /\ armedTicks' = TickArmed(armedTicks)
  /\ tickDue' = TickDueTime(now, lastFrameTime, FrameDurationMs(systemAVInfo))
  /\ cbCount' = 0
  /\ cbRet' = 0
  /\ UNCHANGED <<core, running, allocatedStrings, systemAVInfo, saveManager,
                 coreHasSram, heap, nextPtr, loadPc, loadError, shutdownPc,
                 shutdownCalls, statePc, statePtr, publicOps, now,
                 lastFrameTime, loadLog, shutdownLog, opLog, fault, diagnostics,
                 shutdownRequested, videoVars, workerVars>>
  /\ envOut' = NoCall
  /\ lastData' = "none"
  /\ UNCHANGED <<bridgeVars, envCalls, declared>>
  /\ UNCHANGED renderVars
  /\ UNCHANGED auxVars

\* the core, inside retro_run, stores into its save RAM
CoreStoresSram ==
  /\ inCore = "run"
  /\ coreHasSram
  /\ sramData # "played"
  /\ sramData' = "played"
  /\ UNCHANGED <<hostVars, ctlVars, paceVars, histVars, videoVars, workerVars, envVars,
                 renderVars, saveFile, inputVars, cliVars>>

\* ---------------------------------------------------------------- shutdown
\* the pointers of the registry, as heap blocks
RegistryBlocks == {b \in heap : b[1] \in Range(allocatedStrings)}

\* the events of freeing every pointer of the registry
FreeEach == [i \in 1..Len(allocatedStrings) |-> "free"]

\* the release with the registry left as it is (a faulty variant)
ShutdownReleaseKeepingRegistry(before) ==
  /\ shutdownPc' = "done"
  /\ IF core # "null"
       THEN /\ shutdownLog' = shutdownLog \o before \o <<"retro_unload_game", "retro_deinit">>
                          \o [i \in 1..Len(allocatedStrings) |-> "free"]
                          \o <<"registry_released", "audio_destroy">>
            /\ heap' = {b \in heap : b[1] \notin Range(allocatedStrings)}
            /\ UNCHANGED allocatedStrings
       ELSE /\ shutdownLog' = shutdownLog \o before \o <<"audio_destroy">>
            /\ UNCHANGED <<heap, allocatedStrings>>

\* the part of shutdown() after the SRAM save: with a core, retro_unload_game,
\* retro_deinit, free of every registry pointer, the registry emptied; then
\* audioBridge.destroy().
ShutdownRelease(before) ==
  /\ shutdownPc' = "done"
  /\ IF core # "null"
       THEN /\ shutdownLog' = shutdownLog \o before \o <<"retro_unload_game", "retro_deinit">>
                          \o FreeEach \o <<"registry_released", "audio_destroy">>
            /\ heap' = heap \ RegistryBlocks
            /\ allocatedStrings' = <<>>
       ELSE /\ shutdownLog' = shutdownLog \o before \o <<"audio_destroy">>
            /\ UNCHANGED <<heap, allocatedStrings>>

\* shutdown(): stop(); with a save manager and a core, saveSRAM up to its
\* first await (it returns at once when the core has no save RAM); else the
\* release follows at once.
\* The sessions followed are those in which shutdown() is called after
\* loadAndStart was, and again only once the previous call has ended.
HostShutdown ==
  /\ loadPc # "idle"
  /\ shutdownPc \in {"idle", "done"}
  /\ shutdownCalls < MaxShutdowns
  /\ shutdownCalls' = shutdownCalls + 1
  /\ Stop
  /\ IF saveManager /\ core # "null"
       THEN /\ shutdownPc' = IF coreHasSram THEN "saveSRAM_mkdir" ELSE "saveSRAM_skipped"
            /\ shutdownLog' = shutdownLog \o <<"stop", "saveSRAM", "retro_get_memory_data",
                                "retro_get_memory_size">>
            /\ UNCHANGED <<heap, allocatedStrings>>
       ELSE ShutdownRelease(<<"stop">>)
  /\ UNCHANGED <<loadLog, opLog,
                 core, systemAVInfo, hostFrameCount, saveManager, coreHasSram, nextPtr,
                 loadPc, loadError, statePc, statePtr, publicOps, inCore, cbCount,
                 paceVars, fault, diagnostics, shutdownRequested, cbRet, videoVars,
                 workerVars>>
  /\ UNCHANGED envVars
  /\ UNCHANGED renderVars

\* shutdown() called from the event loop, outside any core entry point
ShutdownCall ==
  /\ inCore = "none"
  /\ HostShutdown
  /\ UNCHANGED auxVars

\* saveSRAM: the debug logs and fs.mkdir resolved; fs.writeFile of the copied
\* region is issued and awaited.
ShutdownSramMkdirDone ==
  /\ inCore = "none"
  /\ shutdownPc = "saveSRAM_mkdir"
  /\ shutdownPc' = "saveSRAM_write"
  /\ shutdownLog' = Append(shutdownLog, "sram_write")
  /\ UNCHANGED <<loadLog, opLog,
                 hostVars, loadPc, loadError, shutdownCalls, statePc, statePtr,
                 publicOps, inCore, cbCount, paceVars, fault, diagnostics,
                 shutdownRequested, cbRet, videoVars, workerVars>>
  /\ UNCHANGED envVars
  /\ UNCHANGED renderVars
  /\ UNCHANGED auxVars

\* saveSRAM resolved (written, or skipped): the release.
ShutdownSramDone ==
  /\ inCore = "none"
  /\ shutdownPc \in {"saveSRAM_write", "saveSRAM_skipped"}
  /\ ShutdownRelease(<<>>)
  /\ UNCHANGED <<loadLog, opLog,
                 core, running, systemAVInfo, hostFrameCount, saveManager, coreHasSram,
                 nextPtr, loadPc, loadError, shutdownCalls, statePc, statePtr,
                 publicOps, inCore, cbCount, paceVars, fault, diagnostics,
                 shutdownRequested, cbRet, videoVars, workerVars>>
  /\ UNCHANGED envVars
  /\ UNCHANGED renderVars
  /\ saveFile' = IF shutdownPc = "saveSRAM_write"
                   THEN [exists |-> TRUE, length |-> SramSize, data |-> sramData]
                   ELSE saveFile
  /\ UNCHANGED <<sramData, inputVars, cliVars>>

\* ------------------------------------------- reset / saveState / loadState
\* reset(): retro_reset() if this.core is set
Reset ==
  /\ inCore = "none"
  /\ publicOps < MaxPublicOps
  /\ publicOps' = publicOps + 1
  /\ opLog' = IF core # "null" THEN Append(opLog, "retro_reset") ELSE opLog
  /\ UNCHANGED <<loadLog, shutdownLog,
                 hostVars, loadPc, loadError, shutdownPc, shutdownCalls, statePc,
                 statePtr, inCore, cbCount, paceVars, fault, diagnostics,
                 shutdownRequested, cbRet, videoVars, workerVars>>
  /\ UNCHANGED envVars
  /\ UNCHANGED renderVars
  /\ UNCHANGED auxVars

\* saveState(slot): with a save manager and a core, SaveManager.saveState up
\* to `await fs.mkdir`: retro_serialize_size (0: nothing to do), a scratch
\* block, retro_serialize (failure: the block is freed at once).
SaveStateCall(size, ok) ==
  /\ inCore = "none"
  /\ statePc = "idle"
  /\ publicOps < MaxPublicOps
  /\ publicOps' = publicOps + 1
  /\ IF saveManager /\ core # "null"
       THEN IF size = 0
              THEN /\ opLog' = Append(opLog, "retro_serialize_size")
                   /\ UNCHANGED <<heap, nextPtr, statePc, statePtr>>
              ELSE IF ok
                THEN /\ opLog' = opLog \o <<"retro_serialize_size", "malloc",
                                         "retro_serialize">>
                     /\ heap' = heap \cup {<<nextPtr, "state">>}
                     /\ statePtr' = nextPtr
                     /\ nextPtr' = nextPtr + 1
                     /\ statePc' = "save_mkdir"
                ELSE /\ opLog' = opLog \o <<"retro_serialize_size", "malloc",
                                         "retro_serialize", "free">>
                     /\ UNCHANGED <<heap, nextPtr, statePc, statePtr>>
       ELSE UNCHANGED <<heap, nextPtr, statePc, statePtr, opLog>>
  /\ UNCHANGED <<loadLog, shutdownLog,
                 core, running, allocatedStrings, systemAVInfo, hostFrameCount,
                 saveManager, coreHasSram, loadPc, loadError, shutdownPc,
                 shutdownCalls, inCore, cbCount, paceVars, fault, diagnostics,
                 shutdownRequested, cbRet, videoVars, workerVars>>
  /\ UNCHANGED envVars
  /\ UNCHANGED renderVars
  /\ UNCHANGED auxVars

\* SaveManager.saveState: fs.mkdir resolved, fs.writeFile is issued and awaited
SaveStateMkdirDone ==
  /\ inCore = "none"
  /\ statePc = "save_mkdir"
  /\ statePc' = "save_write"
  /\ opLog' = Append(opLog, "state_write")
  /\ UNCHANGED <<loadLog, shutdownLog,
                 hostVars, loadPc, loadError, shutdownPc, shutdownCalls, statePtr,
                 publicOps, inCore, cbCount, paceVars, fault, diagnostics,
                 shutdownRequested, cbRet, videoVars, workerVars>>
  /\ UNCHANGED envVars
  /\ UNCHANGED renderVars
  /\ UNCHANGED auxVars

\* SaveManager.saveState: fs.writeFile resolved; finally: the block is freed
SaveStateWriteDone ==
  /\ inCore = "none"
  /\ statePc = "save_write"
  /\ statePc' = "idle"
  /\ heap' = heap \ {<<statePtr, "state">>}
  /\ statePtr' = 0
  /\ opLog' = Append(opLog, "free")
  /\ UNCHANGED <<loadLog, shutdownLog,
                 core, running, allocatedStrings, systemAVInfo, hostFrameCount,
                 saveManager, coreHasSram, nextPtr, loadPc, loadError, shutdownPc,
                 shutdownCalls, publicOps, inCore, cbCount, paceVars, fault,
                 diagnostics, shutdownRequested, cbRet, videoVars, workerVars>>
  /\ UNCHANGED envVars
  /\ UNCHANGED renderVars
  /\ UNCHANGED auxVars

\* loadState(slot): with a save manager and a core, SaveManager.loadState up
\* to `await fs.readFile`
LoadStateCall ==
  /\ inCore = "none"
  /\ statePc = "idle"
  /\ publicOps < MaxPublicOps
  /\ publicOps' = publicOps + 1
  /\ statePc' = IF saveManager /\ core # "null" THEN "load_read" ELSE "idle"
  /\ UNCHANGED <<hostVars, loadPc, loadError, shutdownPc, shutdownCalls, statePtr,
                 inCore, cbCount, paceVars, loadLog, shutdownLog, opLog, fault, diagnostics,
                 shutdownRequested, cbRet, videoVars, workerVars>>
  /\ UNCHANGED envVars
  /\ UNCHANGED renderVars
  /\ UNCHANGED auxVars

\* SaveManager.loadState: fs.readFile settled; a file read is copied into a
\* scratch block, retro_unserialize is called and the block freed; a missing
\* file is ignored.
LoadStateReadDone(exists) ==
  /\ inCore = "none"
  /\ statePc = "load_read"
  /\ statePc' = "idle"
  /\ opLog' = IF exists THEN opLog \o <<"malloc", "retro_unserialize", "free">> ELSE opLog
  /\ UNCHANGED <<loadLog, shutdownLog,
                 core, running, allocatedStrings, systemAVInfo, hostFrameCount,
                 saveManager, coreHasSram, heap, nextPtr, loadPc, loadError, shutdownPc,
                 shutdownCalls, statePtr, publicOps, inCore, cbCount, paceVars,
                 fault, diagnostics, shutdownRequested, cbRet, videoVars, workerVars>>
  /\ UNCHANGED envVars
  /\ UNCHANGED renderVars
  /\ UNCHANGED auxVars

\* ------------------------------------------------------------- VideoOutput
\* onFrame: useTerminal
UseTerminal == mode \in {"terminal", "both"}

\* the window used in 'sdl' mode only (a faulty variant)
UseSDLAlone == mode = "sdl"

\* onFrame: useSDL
UseSDL == mode \in {"sdl", "both"}

\* no frame skipped (a faulty variant)
SkipNever(fc) == FALSE

\* onFrame: skipTerminalFrame, for the frame counter value fc
SkipTerminalFrame(fc) == UseTerminal /\ (fc % renderEveryN # 0)

\* terminalBusy without its outstanding-request term (a faulty variant)
TerminalBusyIgnoringPending == UseTerminal /\ ~workerReady

\* onFrame: terminalBusy
TerminalBusy == UseTerminal /\ (pendingFrame \/ ~workerReady)

\* onFrame: the frame numbered fc is sent to the terminal worker
Dispatches(fc) == UseTerminal /\ ~SkipTerminalFrame(fc) /\ ~TerminalBusy

\* onFrame throws where it calls this.worker.postMessage on a null worker
OnFrameThrows == Dispatches(frameCount + 1) /\ worker = "null"

\* onFrame: `process.stdout.columns || 80` (0: the property is undefined)
TermCols(columns) == IF columns = 0 THEN 80 ELSE columns

\* onFrame: `(process.stdout.rows || 24) - 1`, a row being kept for the status line
TermRows(rows) == (IF rows = 0 THEN 24 ELSE rows) - 1

\* the fit taken for width-constrained whatever the terminal (a faulty variant)
WidthConstrainedAlways(termCols, termRows, aspect) == TRUE

\* onFrame: `rowsNeededForWidth <= termRows`, with rowsNeededForWidth =
\* termCols / (sourceAspect * termCharAspect), termCharAspect = 2.0 and the
\* aspect ratio <<n, d>> standing for n / d
WidthConstrained(termCols, termRows, aspect) ==
  termCols * aspect[2] <= termRows * 2 * aspect[1]

\* onFrame: usedCols and usedRows (Math.floor of the quotient of positives)
FitGrid(termCols, termRows, aspect) ==
  IF WidthConstrained(termCols, termRows, aspect)
    THEN [cols |-> termCols, rows |-> (termCols * aspect[2]) \div (2 * aspect[1])]
    ELSE [cols |-> (termRows * 2 * aspect[1]) \div aspect[2], rows |-> termRows]

\* a new array for every conversion (a faulty variant)
NeedsBufferAlways(width, height) == TRUE

\* _convertToRGBA: `!this.rgbaBuffer || this.rgbaBuffer.length !== totalPixels * 4`
NeedsBuffer(width, height) == rgbaBuffer = 0 \/ rgbaLength # width * height * 4

\* _convertToRGBA: the array it returns after filling it, a new one when needed
RgbaData(width, height) == IF NeedsBuffer(width, height) THEN allocated + 1 ELSE rgbaBuffer

\* _convertToRGBA(wasmModule, dataPtr, width, height, pitch, pixelFormat), but
\* for the assignment of this.rgbaBuffer, which its caller may undo
ConvertToRGBA(format, width, height) ==
  /\ conversions' = conversions + 1
  /\ convertedWith' = format
  /\ convertedPixels' = width * height
  /\ allocated' = IF NeedsBuffer(width, height) THEN allocated + 1 ELSE allocated

\* onFrame: the transfer list of postMessage, `[rgbaData.buffer]`
TransferList(buffer) == {buffer}

\* onFrame: the 'render' message (its contrast, which no action changes, left out)
RenderRequest(buffer, width, height, grid) ==
  [seq |-> posted + 1, buffer |-> buffer, transfer |-> TransferList(buffer),
   width |-> width, height |-> height, termCols |-> grid.cols, termRows |-> grid.rows,
   symbols |-> symbols, colors |-> colors, fgOnly |-> fgOnly, dither |-> dither]

\* onFrame(wasmModule, dataPtr, width, height, pitch, pixelFormat), in a
\* terminal of the given size: it reads no message and returns without
\* waiting on the worker.
OnFrame(format, width, height, columns, rows) ==
  LET fc == frameCount + 1
      rgbaData == RgbaData(width, height)
      grid == FitGrid(TermCols(columns), TermRows(rows), displayAspectRatio)
      request == RenderRequest(rgbaData, width, height, grid)
  IN
  /\ frameCount' = fc
  /\ dropped' = (dropped \/ (UseTerminal /\ ~SkipTerminalFrame(fc) /\ workerReady
                              /\ pendingFrame))
  /\ IF ~UseSDL /\ (SkipTerminalFrame(fc) \/ TerminalBusy)
       THEN UNCHANGED <<sdlRenders, pendingFrame, posted, toWorker, conversions,
                        convertedWith, bufferVars, renderRequests>>
       ELSE /\ ConvertToRGBA(format, width, height)
            /\ sdlRenders' = IF UseSDL /\ sdlRenderer # "null"
                               THEN sdlRenders + 1 ELSE sdlRenders
            /\ IF Dispatches(fc)
                 THEN /\ pendingFrame' = TRUE
                      /\ IF worker = "null"
                           THEN /\ rgbaBuffer' = rgbaData
                                /\ rgbaLength' = width * height * 4
                                /\ UNCHANGED <<posted, toWorker, renderRequests, detached>>
                           ELSE /\ posted' = posted + 1
                                /\ toWorker' = Append(toWorker, "render")
                                /\ renderRequests' = Append(renderRequests, request)
                                /\ detached' = detached \cup request.transfer
                                /\ rgbaBuffer' = 0
                                /\ rgbaLength' = 0
                 ELSE /\ rgbaBuffer' = rgbaData
                      /\ rgbaLength' = width * height * 4
                      /\ UNCHANGED <<pendingFrame, posted, toWorker, renderRequests,
                                     detached>>
  /\ UNCHANGED <<mode, worker, workerReady, renderEveryN, sdlRenderer, videoInitPc,
                 completed, workerState, fromWorker>>
  /\ UNCHANGED <<optionVars, frameTexts, termVars, canvasVars, pixelVars, auxVars>>

\* onFrame called on the VideoOutput object, outside any core call, by a
\* holder of the object (index.js exports the class)
OnFrameCall(format, width, height, columns, rows) ==
  /\ inCore = "none"
  /\ frameCount < MaxFrames
  /\ OnFrame(format, width, height, columns, rows)
  /\ UNCHANGED <<hostVars, ctlVars, paceVars, histVars, envVars>>

\* the lookup tables scaled by a shift (a faulty variant)
Rgb5To8Shifted(i) == i * 8

\* RGB5_TO_8[i] = (i * 255 / 31 + 0.5) | 0: the quotient is never a half, so
\* the truncation is the floor of (510 i + 31) / 62
Rgb5To8(i) == (i * 510 + 31) \div 62

\* RGB6_TO_8[i] = (i * 255 / 63 + 0.5) | 0
Rgb6To8(i) == (i * 510 + 63) \div 126

\* A source pixel is the pair <<high, low>> of its 16-bit halves (the value
\* high * 65536 + low; high is 0 for a pixel read from HEAPU16).
\* _convertXRGB8888, on one pixel read from HEAPU32: the four bytes written,
\* `(pixel >> 16) & 0xFF`, `(pixel >> 8) & 0xFF`, `pixel & 0xFF`, 255
ConvertXRGB8888(pixel) ==
  << pixel[1] % 256, (pixel[2] \div 256) % 256, pixel[2] % 256, 255 >>

\* _convertRGB565, on one pixel read from HEAPU16
ConvertRGB565(pixel) ==
  << Rgb5To8((pixel[2] \div 2048) % 32), Rgb6To8((pixel[2] \div 32) % 64),
     Rgb5To8(pixel[2] % 32), 255 >>

\* _convert0RGB1555, on one pixel read from HEAPU16
Convert0RGB1555(pixel) ==
  << Rgb5To8((pixel[2] \div 1024) % 32), Rgb5To8((pixel[2] \div 32) % 32),
     Rgb5To8(pixel[2] % 32), 255 >>

\* _convertToRGBA: the switch on pixelFormat, on one pixel of a new (zeroed)
\* array; no case matches another format and the array is left as it is
ConvertedPixel(format, pixel) ==
  CASE format = "XRGB8888" -> ConvertXRGB8888(pixel)
    [] format = "RGB565" -> ConvertRGB565(pixel)
    [] format = "0RGB1555" -> Convert0RGB1555(pixel)
    [] OTHER -> <<0, 0, 0, 0>>

\* _convertToRGBA on a frame of one pixel
ConvertPixel ==
  /\ srcFormat # "none"
  /\ rgbaPixel = <<>>
  /\ rgbaPixel' = ConvertedPixel(srcFormat, srcPixel)
  /\ UNCHANGED <<srcFormat, srcPixel>>
  /\ UNCHANGED <<hostVars, ctlVars, paceVars, histVars, videoVars, workerVars, envVars,
                 bufferVars, optionVars, portVars, termVars, canvasVars, auxVars>>

\* init(): in a terminal mode the worker is created and its 'ready' awaited;
\* in 'sdl' mode the window is created at once.
VideoInit ==
  /\ inCore = "none"
  /\ videoInitPc = "idle"
  /\ IF UseTerminal
       THEN /\ worker' = "worker"
            /\ workerState' = "loading"
            /\ videoInitPc' = "awaitWorker"
            /\ UNCHANGED sdlRenderer
       ELSE /\ sdlRenderer' = "renderer"
            /\ videoInitPc' = "done"
            /\ UNCHANGED <<worker, workerState>>
  /\ UNCHANGED <<hostVars, ctlVars, paceVars, loadLog, shutdownLog, opLog, fault, diagnostics,
                 shutdownRequested, cbRet, mode, workerReady, pendingFrame,
                 frameCount, renderEveryN, posted, completed, sdlRenders, dropped, conversions, convertedWith, toWorker,
                 fromWorker>>
  /\ UNCHANGED envVars
  /\ UNCHANGED renderVars
  /\ UNCHANGED auxVars

\* the arguments setFrameSkip is called with
FrameSkips == {0, 1, 3}

\* setFrameSkip(n): this.renderEveryN = Math.max(1, n | 0)
SetFrameSkip(n) ==
  /\ inCore = "none"
  /\ renderEveryN # (IF n < 1 THEN 1 ELSE n)
  /\ renderEveryN' = IF n < 1 THEN 1 ELSE n
  /\ UNCHANGED <<hostVars, ctlVars, paceVars, histVars, mode, worker, workerReady,
                 pendingFrame, frameCount, sdlRenderer, videoInitPc, posted,
                 completed, sdlRenders, dropped, conversions, convertedWith, workerVars>>
  /\ UNCHANGED envVars
  /\ UNCHANGED renderVars
  /\ UNCHANGED auxVars

\* the cursor-home sequence `\x1b[H`
CursorHome == <<"ESC[H", 0>>

\* the status line: the cursor moved to the last row, the sizes, rate and options
StatusLine == <<"status", 0>>

\* the frame text written first (a faulty variant)
FrameWriteWithoutHome(text) == << <<"ansi", text>>, StatusLine >>

\* the 'frame' handler: the argument of its one process.stdout.write, the
\* template `\x1b[H${msg.ansi}${statusLine}`, msg.ansi being the text of the
\* given request
FrameWrite(text) == << CursorHome, <<"ansi", text>>, StatusLine >>

\* a call of one of the option setters, which leaves all but the options alone
OptionSetter ==
  /\ inCore = "none"
  /\ settingsCalls < MaxSettings
  /\ settingsCalls' = settingsCalls + 1
  /\ UNCHANGED <<hostVars, ctlVars, paceVars, histVars, videoVars, workerVars, envVars,
                 bufferVars, portVars, termVars, canvasVars, pixelVars, auxVars>>

\* setAspectRatio(ratio)
SetAspectRatio(ratio) ==
  /\ OptionSetter
  /\ displayAspectRatio' = AspectOrDefault(ratio)
  /\ UNCHANGED <<symbols, colors, fgOnly, dither>>

\* setSymbols: validSymbols
ValidSymbols == {"block", "half", "ascii", "ascii+block", "solid", "stipple", "quad",
                 "sextant", "octant", "braille", "matrix"}

\* setSymbols(symbols)
SetSymbols(s) ==
  /\ OptionSetter
  /\ symbols' = IF s \in ValidSymbols THEN s ELSE "block"
  /\ UNCHANGED <<colors, fgOnly, dither, displayAspectRatio>>

\* setColors: validColors
ValidColors == {"true", "256", "16", "2"}

\* setColors(colors)
SetColors(c) ==
  /\ OptionSetter
  /\ colors' = IF c \in ValidColors THEN c ELSE "true"
  /\ UNCHANGED <<symbols, fgOnly, dither, displayAspectRatio>>

\* setFgOnly(enabled)
SetFgOnly(enabled) ==
  /\ OptionSetter
  /\ fgOnly' = enabled
  /\ UNCHANGED <<symbols, colors, dither, displayAspectRatio>>

\* setDither(enabled)
SetDither(enabled) ==
  /\ OptionSetter
  /\ dither' = enabled
  /\ UNCHANGED <<symbols, colors, fgOnly, displayAspectRatio>>

\* the worker's 'message' handler of _initTerminalWorker, and the
\* worker's 'error' event handler, on the next message of the port
OnWorkerMessage ==
  /\ inCore = "none"
  /\ fromWorker # <<>>
  /\ fromWorker' = Tail(fromWorker)
  /\ frameTexts' = Tail(frameTexts)
  /\ LET msg == Head(fromWorker) IN
     CASE msg = "ready" ->
            /\ workerReady' = TRUE
            /\ videoInitPc' = IF videoInitPc = "awaitWorker" THEN "done" ELSE videoInitPc
            /\ sdlRenderer' = IF videoInitPc = "awaitWorker" /\ mode = "both"
                                THEN "renderer" ELSE sdlRenderer
            /\ UNCHANGED <<pendingFrame, completed, termVars>>
       [] msg = "frame" ->
            /\ pendingFrame' = FALSE
            /\ completed' = completed + 1
            /\ stdoutWrites' = stdoutWrites + 1
            /\ lastWrite' = FrameWrite(Head(frameTexts))
            /\ UNCHANGED <<workerReady, videoInitPc, sdlRenderer>>
       [] OTHER ->
            /\ videoInitPc' = IF ~workerReady /\ videoInitPc = "awaitWorker"
                                THEN "failed" ELSE videoInitPc
            /\ UNCHANGED <<workerReady, pendingFrame, completed, sdlRenderer, termVars>>
  /\ UNCHANGED <<hostVars, ctlVars, paceVars, loadLog, shutdownLog, opLog, fault, diagnostics,
                 shutdownRequested, cbRet, mode, worker, frameCount, renderEveryN,
                 posted, sdlRenders, dropped, conversions, convertedWith, workerState, toWorker>>
  /\ UNCHANGED envVars
  /\ UNCHANGED <<bufferVars, optionVars, renderRequests, canvasVars, pixelVars, auxVars>>

\* destroy(): the worker is terminated (its unhandled requests are lost; what
\* it had already posted is still delivered), the window destroyed.
VideoDestroy ==
  /\ inCore = "none"
  /\ worker # "null" \/ sdlRenderer # "null" \/ workerReady
  /\ worker' = "null"
  /\ workerReady' = FALSE
  /\ sdlRenderer' = "null"
  /\ workerState' = IF worker # "null" THEN "dead" ELSE workerState
  /\ toWorker' = IF worker # "null" THEN <<>> ELSE toWorker
  /\ renderRequests' = IF worker # "null" THEN <<>> ELSE renderRequests
  /\ UNCHANGED <<hostVars, ctlVars, paceVars, loadLog, shutdownLog, opLog, fault, diagnostics,
                 shutdownRequested, cbRet, mode, pendingFrame, frameCount,
                 renderEveryN, videoInitPc, posted, completed, sdlRenders, dropped, conversions, convertedWith,
                 fromWorker>>
  /\ UNCHANGED envVars
  /\ UNCHANGED <<bufferVars, optionVars, frameTexts, termVars, canvasVars, pixelVars, auxVars>>

\* --------------------------------------------------- videoWorker.js thread
\* initChafa(): 'ready' is posted, or the 'error' of its catch
WorkerInit(ok) ==
  /\ workerState = "loading"
  /\ workerState' = IF ok THEN "ready" ELSE "failed"
  /\ fromWorker' = Append(fromWorker, IF ok THEN "ready" ELSE "error")
  /\ frameTexts' = Append(frameTexts, 0)
  /\ UNCHANGED <<hostVars, ctlVars, paceVars, loadLog, shutdownLog, opLog, fault, diagnostics,
                 shutdownRequested, cbRet, videoVars, toWorker>>
  /\ UNCHANGED envVars
  /\ UNCHANGED <<bufferVars, optionVars, renderRequests, termVars, canvasVars, pixelVars, auxVars>>

\* SYMBOL_SETS and the 'matrix' branch of setupSymbolMap: the sets with tags of their own
KnownSymbols == {"block", "half", "ascii", "ascii+block", "solid", "stipple", "quad",
                 "sextant", "octant", "braille", "matrix"}

\* setupSymbolMap: `SYMBOL_SETS[symbols] || SYMBOL_SETS.block`, as the set whose tags are added
SymbolTags(s) == IF s \in KnownSymbols THEN s ELSE "block"

\* setupCanvas: `COLOR_MODES[colors] || CHAFA_CANVAS_MODE_TRUECOLOR`, as the name of the mode
CanvasMode(c) == IF c \in {"256", "16", "2"} THEN c ELSE "true"

\* the arguments renderFrame hands to setupCanvas, taken from the message
SettingsOf(r) ==
  [symbols |-> r.symbols, colors |-> r.colors, fgOnly |-> r.fgOnly, dither |-> r.dither,
   termCols |-> r.termCols, termRows |-> r.termRows]

\* setupCanvas: settingsChanged
SettingsChanged(r) ==
  \/ r.symbols # workerLast.symbols
  \/ r.colors # workerLast.colors
  \/ r.fgOnly # workerLast.fgOnly
  \/ r.dither # workerLast.dither

\* setupCanvas: sizeChanged
SizeChanged(r) == r.termCols # workerLast.width \/ r.termRows # workerLast.height

\* the canvas rebuilt for a new grid size only (a faulty variant)
RebuildsConfigOnSizeOnly(r) == SizeChanged(r) \/ ~canvas.live

\* setupCanvas: it goes past `if (!settingsChanged && !sizeChanged && canvas) return`
RebuildsConfig(r) == SettingsChanged(r) \/ SizeChanged(r) \/ ~canvas.live

\* setupCanvas: `if (symbols !== lastSymbols) setupSymbolMap(symbols)`, on a rebuild
RebuildsMap(r) == RebuildsConfig(r) /\ r.symbols # workerLast.symbols

\* setupCanvas: the canvas made from the new configuration
CanvasFor(r, map) ==
  [live |-> TRUE, cols |-> r.termCols, rows |-> r.termRows, mode |-> CanvasMode(r.colors),
   map |-> map, fgOnly |-> r.fgOnly, dither |-> r.dither]

\* setupCanvas(termCols, termRows, symbols, colors, fgOnly, dither) on the
\* fields of a request
SetupCanvas(r) ==
  LET map == IF RebuildsMap(r) THEN SymbolTags(r.symbols) ELSE symbolMap IN
  /\ symbolMap' = map
  /\ IF RebuildsConfig(r)
       THEN /\ canvas' = CanvasFor(r, map)
            /\ workerLast' = [symbols |-> r.symbols, colors |-> r.colors,
                              fgOnly |-> r.fgOnly, dither |-> r.dither,
                              width |-> r.termCols, height |-> r.termRows]
       ELSE UNCHANGED <<canvas, workerLast>>
  /\ rendered' = [request |-> r.seq, settings |-> SettingsOf(r),
                  config |-> RebuildsConfig(r), map |-> RebuildsMap(r), canvas |-> canvas']

\* the worker's 'message' handler on a 'render' request: renderFrame gives
\* the text ("ansi": a 'frame' message is posted), nothing ("null": no
\* message), or throws ("throw": the thread dies and the 'error' event
\* reaches the main thread).  With the engine loaded the canvas is set up
\* before the pixels are drawn.
WorkerRender(outcome) ==
  /\ workerState \in {"ready", "failed"}
  /\ toWorker # <<>>
  /\ workerState = "failed" => outcome = "null"
  /\ toWorker' = Tail(toWorker)
  /\ renderRequests' = Tail(renderRequests)
  /\ fromWorker' = CASE outcome = "ansi" -> Append(fromWorker, "frame")
                     [] outcome = "null" -> fromWorker
                     [] OTHER -> Append(fromWorker, "error")
  /\ frameTexts' = CASE outcome = "ansi" -> Append(frameTexts, Head(renderRequests).seq)
                     [] outcome = "null" -> frameTexts
                     [] OTHER -> Append(frameTexts, 0)
  /\ IF workerState = "ready" /\ outcome # "throw"
       THEN SetupCanvas(Head(renderRequests))
       ELSE UNCHANGED canvasVars
  /\ workerState' = IF outcome = "throw" THEN "dead" ELSE workerState
  /\ UNCHANGED <<hostVars, ctlVars, paceVars, loadLog, shutdownLog, opLog, fault, diagnostics,
                 shutdownRequested, cbRet, videoVars>>
  /\ UNCHANGED envVars
  /\ UNCHANGED <<bufferVars, optionVars, termVars, pixelVars, auxVars>>

\* ----------------------------------- the six callbacks (_registerCallbacks)
\* The closures given to addFunction call the handler with nothing around the
\* call: what the handler throws leaves the closure.
ThrowOutcome == "propagated"

\* An exception leaves a callback: it unwinds the core's frames and reaches
\* the host code that called the entry point.  From retro_init or
\* retro_load_game, loadAndStart rejects with it; from retro_run, tick ends
\* without re-arming.
Unwind(cb) ==
  /\ fault' = IF ThrowOutcome = "propagated" THEN cb ELSE fault
  /\ diagnostics' = IF ThrowOutcome = "propagated" THEN diagnostics ELSE diagnostics + 1
  /\ cbRet' = 0
  /\ inCore' = IF ThrowOutcome = "propagated" THEN "none" ELSE inCore
  /\ IF ThrowOutcome = "propagated" /\ inCore \in {"init", "load_game"}
       THEN loadPc' = "failed" /\ loadError' = "callback_exception"
       ELSE UNCHANGED <<loadPc, loadError>>

\* environment commands the core sends in this model
EnvCommands == {"SHUTDOWN", "GET_SYSTEM_DIRECTORY", "GET_SAVE_DIRECTORY",
                "GET_USERNAME", "SET_GEOMETRY", "GET_LOG_INTERFACE"}

\* the commands answered with a string allocated by _allocString
StringCommands == {"GET_SYSTEM_DIRECTORY", "GET_SAVE_DIRECTORY", "GET_USERNAME"}

\* _handleEnvironment's return value
EnvReturn(cmd) ==
  IF cmd \in StringCommands \cup {"SHUTDOWN", "SET_GEOMETRY"} THEN 1 ELSE 0

\* envCb: `return this._handleEnvironment(cmd, dataPtr) ? 1 : 0`.  Only the
\* allocating commands can throw (the module aborts when malloc fails).
EnvironmentCb(cmd, throws) ==
  /\ inCore # "none"
  /\ cbCount < MaxCallbacks
  /\ cbCount' = cbCount + 1
  /\ throws => cmd \in StringCommands
  /\ IF throws
       THEN /\ Unwind("environment")
            /\ UNCHANGED <<running, allocatedStrings, heap, nextPtr, shutdownRequested>>
       ELSE /\ cbRet' = EnvReturn(cmd)
            /\ IF cmd = "SHUTDOWN"
                 THEN Stop /\ shutdownRequested' = TRUE
                 ELSE UNCHANGED <<running, shutdownRequested>>
            /\ IF cmd \in StringCommands
                 THEN /\ heap' = heap \cup {<<nextPtr, "string">>}
                      /\ allocatedStrings' = Append(allocatedStrings, nextPtr)
                      /\ nextPtr' = nextPtr + 1
                 ELSE UNCHANGED <<heap, allocatedStrings, nextPtr>>
            /\ UNCHANGED <<fault, diagnostics, inCore, loadPc, loadError>>
  /\ UNCHANGED <<loadLog, shutdownLog, opLog, core, systemAVInfo, hostFrameCount, saveManager, coreHasSram,
                 shutdownPc, shutdownCalls, statePc, statePtr, publicOps, paceVars,
                 videoVars, workerVars>>
  /\ UNCHANGED envVars
  /\ UNCHANGED renderVars
  /\ UNCHANGED auxVars

\* every refresh forwarded to onFrame (a faulty variant)
ForwardsAlways(dataNull) == TRUE

\* videoCb: `if (dataPtr === 0) return;`
ForwardsFrame(dataNull) == ~dataNull

\* the frame the core hands to videoCb (width, height), and the terminal the
\* program runs in (process.stdout.columns, process.stdout.rows)
CoreFrame == [width |-> 2, height |-> 1]
Terminal == [columns |-> 80, rows |-> 24]

\* videoCb: a null data pointer returns at once; else videoOutput.onFrame
\* with this.pixelFormat.
\* sinkThrows: the window renderer throws inside onFrame.
VideoRefreshCb(dataNull, sinkThrows) ==
  /\ inCore # "none"
  /\ cbCount < MaxCallbacks
  /\ cbCount' = cbCount + 1
  /\ sinkThrows => ~dataNull /\ UseSDL /\ sdlRenderer # "null"
  /\ lastData' = IF dataNull THEN "null" ELSE "frame"
  /\ IF ~ForwardsFrame(dataNull)
       THEN /\ cbRet' = 0
            /\ UNCHANGED <<videoVars, workerVars, fault, diagnostics, inCore, loadPc,
                           loadError, renderVars, auxVars>>
       ELSE IF sinkThrows
         THEN /\ frameCount' = frameCount + 1
              /\ ConvertToRGBA(pixelFormat, CoreFrame.width, CoreFrame.height)
              /\ rgbaBuffer' = RgbaData(CoreFrame.width, CoreFrame.height)
              /\ rgbaLength' = CoreFrame.width * CoreFrame.height * 4
              /\ Unwind("video_refresh")
              /\ UNCHANGED <<mode, worker, workerReady, pendingFrame, renderEveryN,
                             sdlRenderer, videoInitPc, posted, completed, sdlRenders,
                             dropped, workerVars, detached, optionVars, portVars,
                             termVars, canvasVars, pixelVars, auxVars>>
         ELSE /\ OnFrame(pixelFormat, CoreFrame.width, CoreFrame.height,
                         Terminal.columns, Terminal.rows)
              /\ IF OnFrameThrows
                   THEN Unwind("video_refresh")
                   ELSE /\ cbRet' = 0
                        /\ UNCHANGED <<fault, diagnostics, inCore, loadPc, loadError>>
  /\ UNCHANGED <<hostVars, shutdownPc, shutdownCalls, statePc, statePtr, publicOps,
                 paceVars, loadLog, shutdownLog, opLog, shutdownRequested>>
  /\ UNCHANGED <<bridgeVars, envCalls, declared, envOut>>

\* the collaborators' callbacks, which touch no state of the bridge
CollaboratorCallbacks == {"audio_sample_batch", "audio_sample", "input_poll", "input_state"}

\* audioBatchCb, audioSampleCb, inputPollCb, inputStateCb: each forwards to
\* its collaborator (audioBridge, inputManager), which may throw.
CollaboratorCb(cb, throws) ==
  /\ inCore # "none"
  /\ cbCount < MaxCallbacks
  /\ cbCount' = cbCount + 1
  /\ IF throws
       THEN Unwind(cb)
       ELSE /\ cbRet' = IF cb \in {"audio_sample_batch", "input_state"} THEN 1 ELSE 0
            /\ UNCHANGED <<fault, diagnostics, inCore, loadPc, loadError>>
  /\ UNCHANGED <<hostVars, shutdownPc, shutdownCalls, statePc, statePtr, publicOps,
                 paceVars, loadLog, shutdownLog, opLog, shutdownRequested, videoVars, workerVars>>
  /\ UNCHANGED envVars
  /\ UNCHANGED renderVars
  /\ UNCHANGED auxVars

\* ------------------------------------- _handleEnvironment, command by command
\* RETRO_ENVIRONMENT_EXPERIMENTAL, the bit `cmd & ~0x10000` clears
ExperimentalBit == 65536

\* the dispatch key taken as the raw code (a faulty variant)
BaseCmdUnmasked(cmd) == cmd

\* `const baseCmd = cmd & ~0x10000`
BaseCmd(cmd) ==
  IF (cmd \div ExperimentalBit) % 2 = 1 THEN cmd - ExperimentalBit ELSE cmd

\* The command numbers imported from ../constants/libretro.js: those of the
\* libretro API, the experimental bit apart.
CommandCode ==
  [SET_ROTATION |-> 1, GET_OVERSCAN |-> 2, GET_CAN_DUPE |-> 3, SET_MESSAGE |-> 6,
   SHUTDOWN |-> 7, SET_PERFORMANCE_LEVEL |-> 8, GET_SYSTEM_DIRECTORY |-> 9,
   SET_PIXEL_FORMAT |-> 10, SET_INPUT_DESCRIPTORS |-> 11, GET_VARIABLE |-> 15,
   SET_VARIABLES |-> 16, GET_VARIABLE_UPDATE |-> 17, SET_SUPPORT_NO_GAME |-> 18,
   GET_RUMBLE_INTERFACE |-> 23, GET_INPUT_DEVICE_CAPABILITIES |-> 24,
   GET_LOG_INTERFACE |-> 27, GET_SAVE_DIRECTORY |-> 31, SET_SUBSYSTEM_INFO |-> 34,
   SET_CONTROLLER_INFO |-> 35, SET_MEMORY_MAPS |-> 36, SET_GEOMETRY |-> 37,
   GET_USERNAME |-> 38, GET_LANGUAGE |-> 39, SET_SUPPORT_ACHIEVEMENTS |-> 42,
   SET_SERIALIZATION_QUIRKS |-> 44, GET_VFS_INTERFACE |-> 45,
   GET_AUDIO_VIDEO_ENABLE |-> 47, GET_INPUT_BITMASKS |-> 51,
   GET_CORE_OPTIONS_VERSION |-> 52, SET_CORE_OPTIONS_V2 |-> 67,
   SET_CORE_OPTIONS_UPDATE_DISPLAY_CALLBACK |-> 69]

\* the codes with a `case` of their own in the switch (SET_CORE_OPTIONS_V2 is
\* imported and has none)
HandledCodes == {CommandCode[n] : n \in DOMAIN CommandCode \ {"SET_CORE_OPTIONS_V2"}}

\* no case that only returns true (a faulty variant)
NoneAccepted == {}

\* the cases that only `return true`
AcceptAndIgnore ==
  {CommandCode[n] : n \in {"SET_MESSAGE", "SET_INPUT_DESCRIPTORS", "SET_CONTROLLER_INFO",
                           "SET_SUBSYSTEM_INFO", "SET_MEMORY_MAPS", "SET_SUPPORT_NO_GAME",
                           "SET_PERFORMANCE_LEVEL", "SET_GEOMETRY", "SET_ROTATION",
                           "SET_SUPPORT_ACHIEVEMENTS", "GET_INPUT_BITMASKS",
                           "SET_SERIALIZATION_QUIRKS",
                           "SET_CORE_OPTIONS_UPDATE_DISPLAY_CALLBACK"}}

\* the cases that only `return false`
RefusedInterfaces ==
  {CommandCode[n] : n \in {"GET_LOG_INTERFACE", "GET_RUMBLE_INTERFACE", "GET_VFS_INTERFACE"}}

\* every format code taken as supported (a faulty variant)
AnyFormat == {"0RGB1555", "XRGB8888", "RGB565", "99"}

\* the formats SET_PIXEL_FORMAT accepts
SupportedFormats == {"0RGB1555", "XRGB8888", "RGB565"}

\* a null pointer where a key pointer is read
NullKey == "<null>"

\* desc.indexOf('; '), counted from 0; -1 when absent
IndexOfSeparator(desc) ==
  LET at == {i \in 1..(Len(desc) - 1) : desc[i] = ";" /\ desc[i + 1] = " "}
  IN IF at = {} THEN -1 ELSE (CHOOSE i \in at : \A j \in at : i <= j) - 1

\* str.split('|')
RECURSIVE SplitOptions(_)
SplitOptions(str) ==
  LET bars == {i \in 1..Len(str) : str[i] = "|"}
  IN IF bars = {} THEN <<str>>
     ELSE LET b == CHOOSE i \in bars : \A j \in bars : i <= j
          IN <<SubSeq(str, 1, b - 1)>> \o SplitOptions(SubSeq(str, b + 1, Len(str)))

\* this.coreVariables.get(key): the set holding the entry, or empty
VariableOf(table, key) == {v \in table : v.key = key}

\* the entry stored with its last option as the value (a faulty variant)
SetVariableLastOption(table, key, desc) ==
  LET semiIdx == IndexOfSeparator(desc)
      options == SplitOptions(SubSeq(desc, semiIdx + 3, Len(desc)))
  IN (table \ VariableOf(table, key))
       \cup {[key |-> key, description |-> SubSeq(desc, 1, semiIdx),
              options |-> options, value |-> options[Len(options)]]}

\* this.coreVariables.set(key, {description, options, value: options[0]})
SetVariable(table, key, desc) ==
  LET semiIdx == IndexOfSeparator(desc)
      options == SplitOptions(SubSeq(desc, semiIdx + 3, Len(desc)))
  IN (table \ VariableOf(table, key))
       \cup {[key |-> key, description |-> SubSeq(desc, 1, semiIdx),
              options |-> options, value |-> options[1]]}

\* the loop ended after its first entry (a faulty variant)
WalkVariablesFirstOnly(array, i, table) ==
  IF array[i][1] = NullKey \/ IndexOfSeparator(array[i][2]) < 0 THEN table
  ELSE SetVariable(table, array[i][1], array[i][2])

\* The loop of SET_VARIABLES over the array at dataPtr, from its entry i: it
\* ends at the first null key; an entry whose text has no '; ' is passed over.
RECURSIVE WalkVariables(_, _, _)
WalkVariables(array, i, table) ==
  IF array[i][1] = NullKey THEN table
  ELSE WalkVariables(array, i + 1,
                     IF IndexOfSeparator(array[i][2]) >= 0
                       THEN SetVariable(table, array[i][1], array[i][2])
                       ELSE table)

\* the dispatch with the default branch writing its line at every call (a
\* faulty variant)
HandleEnvironmentLogAll(cmd, data) ==
  LET none == [ret |-> FALSE, pixelFormat |-> pixelFormat, coreVariables |-> coreVariables,
               variablesUpdated |-> variablesUpdated, loggedEnvCalls |-> loggedEnvCalls,
               envLog |-> envLog, stop |-> FALSE, alloc |-> FALSE, text |-> <<>>,
               value |-> -1]
  IN IF BaseCmd(cmd) \in HandledCodes
       THEN [none EXCEPT !.ret = TRUE]
       ELSE [none EXCEPT !.loggedEnvCalls = loggedEnvCalls \cup {BaseCmd(cmd)},
                         !.envLog = Append(envLog, <<BaseCmd(cmd), cmd>>)]

\* _handleEnvironment(cmd, dataPtr) on the bridge state: its return value, the
\* fields it leaves, the string it has _allocString copy (alloc), the number it
\* writes at the data pointer (value; with alloc, the new pointer is written),
\* and whether it calls stop().
HandleEnvironment(cmd, data) ==
  LET baseCmd == BaseCmd(cmd)
      none == [ret |-> FALSE, pixelFormat |-> pixelFormat, coreVariables |-> coreVariables,
               variablesUpdated |-> variablesUpdated, loggedEnvCalls |-> loggedEnvCalls,
               envLog |-> envLog, stop |-> FALSE, alloc |-> FALSE, text |-> <<>>,
               value |-> -1]
      accepted == [none EXCEPT !.ret = TRUE]
  IN CASE baseCmd = CommandCode.GET_CAN_DUPE -> [accepted EXCEPT !.value = 1]
       [] baseCmd = CommandCode.SET_PIXEL_FORMAT ->
            IF data \in SupportedFormats
              THEN [accepted EXCEPT !.pixelFormat = data]
              ELSE none
       [] baseCmd = CommandCode.GET_SYSTEM_DIRECTORY ->
            [accepted EXCEPT !.alloc = TRUE, !.text = <<"systemDir">>]
       [] baseCmd = CommandCode.GET_SAVE_DIRECTORY ->
            [accepted EXCEPT !.alloc = TRUE, !.text = <<"saveDir">>]
       [] baseCmd = CommandCode.GET_USERNAME ->
            [accepted EXCEPT !.alloc = TRUE, !.text = <<"player">>]
       [] baseCmd = CommandCode.SET_VARIABLES ->
            [accepted EXCEPT !.coreVariables = WalkVariables(data, 1, coreVariables)]
       [] baseCmd = CommandCode.GET_VARIABLE ->
            IF data = NullKey THEN none
            ELSE IF VariableOf(coreVariables, data) = {} THEN [none EXCEPT !.value = 0]
            ELSE [accepted EXCEPT !.alloc = TRUE,
                                  !.text = (CHOOSE v \in VariableOf(coreVariables, data) : TRUE).value]
       [] baseCmd = CommandCode.GET_VARIABLE_UPDATE ->
            [accepted EXCEPT !.value = IF variablesUpdated THEN 1 ELSE 0,
                             !.variablesUpdated = FALSE]
       [] baseCmd \in {CommandCode.GET_OVERSCAN, CommandCode.GET_CORE_OPTIONS_VERSION,
                       CommandCode.GET_LANGUAGE} ->
            [accepted EXCEPT !.value = 0]
       [] baseCmd = CommandCode.GET_INPUT_DEVICE_CAPABILITIES -> [accepted EXCEPT !.value = 2]
       [] baseCmd = CommandCode.GET_AUDIO_VIDEO_ENABLE -> [accepted EXCEPT !.value = 7]
       [] baseCmd \in AcceptAndIgnore -> accepted
       [] baseCmd \in RefusedInterfaces -> none
       [] baseCmd = CommandCode.SHUTDOWN -> [accepted EXCEPT !.stop = TRUE]
       [] OTHER ->
            IF baseCmd \in loggedEnvCalls THEN none
            ELSE [none EXCEPT !.loggedEnvCalls = loggedEnvCalls \cup {baseCmd},
                              !.envLog = Append(envLog, <<baseCmd, cmd>>)]

\* the environment calls of a session that are followed in full
MaxEnvCalls == 3

\* the keys and the declaration texts the core uses; a text is the sequence
\* of its characters
Keys == {"k1", "k2"}
Descs == {<<"A", ";", " ", "x", "|", "y">>, <<"B", ";", " ", "y">>, <<"C", ";", "x", "|", "y">>}
Terminator == <<NullKey, <<>>>>

\* the arrays SET_VARIABLES is given: up to two declarations and the
\* {NULL, NULL} entry, memory past it holding what it may
VariableArrays ==
  LET entries == Keys \X Descs
      second == {"k2"} \X {<<"A", ";", " ", "x", "|", "y">>, <<"C", ";", "x", "|", "y">>}
      past == <<"k2", <<"B", ";", " ", "y">>>>
  IN {<<Terminator>>}
       \cup {<<e, Terminator>> : e \in entries}
       \cup {<<e[1], e[2], Terminator>> : e \in entries \X second}
       \cup {<<e, Terminator, past>> : e \in {"k1"} \X Descs}

\* the code of a command sent with the experimental bit and without
BothForms(names) ==
  {CommandCode[n] : n \in names} \cup {CommandCode[n] + ExperimentalBit : n \in names}

\* a code that ../constants/libretro.js is not asked for (SET_KEYBOARD_CALLBACK)
UnlistedCode == 12

\* the codes sent by a core that negotiates the pixel format
FormatCodes == BothForms({"SET_PIXEL_FORMAT"}) \cup {CommandCode.GET_OVERSCAN}

\* the codes sent by a core that declares and reads variables
VariableCodes ==
  {CommandCode.SET_VARIABLES, CommandCode.GET_VARIABLE + ExperimentalBit,
   CommandCode.GET_VARIABLE_UPDATE, CommandCode.SET_CORE_OPTIONS_V2}

\* the codes sent by a core that asks for paths and declares what the bridge
\* ignores or does not know
EnvCodes ==
  BothForms({"SET_GEOMETRY", "SET_ROTATION", "SET_CONTROLLER_INFO", "SET_MEMORY_MAPS",
             "SET_SUBSYSTEM_INFO", "SET_PERFORMANCE_LEVEL", "SET_SUPPORT_ACHIEVEMENTS",
             "SET_SERIALIZATION_QUIRKS", "SET_CORE_OPTIONS_V2"})
    \cup {CommandCode.GET_SYSTEM_DIRECTORY, CommandCode.GET_USERNAME,
          CommandCode.SHUTDOWN, UnlistedCode, UnlistedCode + ExperimentalBit}

\* the one-declaration array of a core with a single variable
OneVariable == {<<<<"k1", <<"A", ";", " ", "x", "|", "y">>>>, Terminator>>}

\* the codes sent by a core that asks for every string the bridge hands out
StringCodes ==
  {CommandCode[n] : n \in {"GET_SYSTEM_DIRECTORY", "GET_SAVE_DIRECTORY", "GET_USERNAME",
                           "SET_VARIABLES", "GET_VARIABLE"}}

\* what the data pointer of a call points to, by the command sent; arrays:
\* the variable arrays the core has
EnvData(cmd, arrays) ==
  LET c == cmd % ExperimentalBit
  IN CASE c = CommandCode.SET_PIXEL_FORMAT -> SupportedFormats \cup {"99"}
       [] c = CommandCode.SET_VARIABLES -> arrays
       [] c = CommandCode.GET_VARIABLE -> Keys \cup {NullKey}
       [] OTHER -> {0}

\* the entries of an array up to its {NULL, NULL} entry, noted in the record
\* of what the core has declared
RECURSIVE Declare(_, _, _)
Declare(array, i, d) ==
  IF array[i][1] = NullKey THEN d
  ELSE LET key == array[i][1]
           text == array[i][2]
           old == {e \in d : e.key = key}
           hasSeparator == \E j \in 1..(Len(text) - 1) : text[j] = ";" /\ text[j + 1] = " "
           kept == IF old = {} THEN <<>> ELSE (CHOOSE e \in old : TRUE).text
       IN Declare(array, i + 1,
                  (d \ old) \cup {[key |-> key,
                                    text |-> IF hasSeparator THEN text ELSE kept]})

\* the record of a call: the code, and the format, the key or the array at
\* the data pointer
Sent(cmd, data) ==
  LET c == cmd % ExperimentalBit
  IN [NoCall EXCEPT !.cmd = cmd,
                    !.arg = IF c \in {CommandCode.SET_PIXEL_FORMAT, CommandCode.GET_VARIABLE}
                              THEN data ELSE "",
                    !.array = IF c = CommandCode.SET_VARIABLES THEN data ELSE <<>>]

\* envCb with the whole dispatch: `this._handleEnvironment(cmd, dataPtr) ? 1 : 0`.
\* throws: the module aborts in the malloc of _allocString.
EnvironmentCall(cmd, data, throws) ==
  /\ inCore # "none"
  /\ envCalls < MaxEnvCalls
  /\ envCalls' = envCalls + 1
  /\ LET r == HandleEnvironment(cmd, data) IN
     /\ throws => r.alloc
     /\ IF throws
          THEN /\ Unwind("environment")
               /\ envOut' = Sent(cmd, data)
               /\ UNCHANGED <<running, shutdownRequested, heap, allocatedStrings, nextPtr,
                              bridgeVars, declared>>
          ELSE /\ cbRet' = IF r.ret THEN 1 ELSE 0
               /\ pixelFormat' = r.pixelFormat
               /\ coreVariables' = r.coreVariables
               /\ variablesUpdated' = r.variablesUpdated
               /\ loggedEnvCalls' = r.loggedEnvCalls
               /\ envLog' = r.envLog
               /\ declared' = IF cmd % ExperimentalBit = CommandCode.SET_VARIABLES
                                 THEN Declare(data, 1, declared) ELSE declared
               /\ IF r.stop
                    THEN Stop /\ shutdownRequested' = TRUE
                    ELSE UNCHANGED <<running, shutdownRequested>>
               /\ IF r.alloc
                    THEN /\ heap' = heap \cup {<<nextPtr, "string">>}
                         /\ allocatedStrings' = Append(allocatedStrings, nextPtr)
                         /\ nextPtr' = nextPtr + 1
                         /\ envOut' = [Sent(cmd, data) EXCEPT !.value = nextPtr,
                                                              !.text = r.text]
                    ELSE /\ UNCHANGED <<heap, allocatedStrings, nextPtr>>
                         /\ envOut' = [Sent(cmd, data) EXCEPT !.value = r.value]
               /\ UNCHANGED <<fault, diagnostics, inCore, loadPc, loadError>>
  /\ UNCHANGED <<loadLog, shutdownLog, opLog, core, systemAVInfo, hostFrameCount,
                 saveManager, coreHasSram, shutdownPc, shutdownCalls, statePc, statePtr,
                 publicOps, cbCount, paceVars, videoVars, workerVars, lastData>>
  /\ UNCHANGED renderVars
  /\ UNCHANGED auxVars

\* ---------------------------------------------------------- specifications
\* loadAndStart, from its call to its end or its rejection
LoadSteps ==
  \/ LoadAndStartCall
  \/ \E supported \in BOOLEAN : LoadDetectSystem(supported)
  \/ \E f \in CoreFiles, sram \in BOOLEAN : LoadCoreDone(f, sram)
  \/ \E given \in BOOLEAN : InitReturn(given)
  \/ LoadReadFileDone
  \/ \E result \in {0, 1}, fps \in FpsValues : LoadGameReturn(result, fps, CoreAspect)
  \/ LoadAudioInitDone
  \/ LoadAppendFileDone
  \/ LoadSRAMDone

\* loadAndStart of a bridge without a save manager, which skips the SRAM load
LoadStepsWithoutSaves ==
  \/ LoadAndStartCall
  \/ \E supported \in BOOLEAN : LoadDetectSystem(supported)
  \/ \E f \in CoreFiles, sram \in BOOLEAN : LoadCoreDone(f, sram)
  \/ \E given \in BOOLEAN : InitReturn(given)
  \/ LoadReadFileDone
  \/ \E result \in {0, 1}, fps \in FpsValues : LoadGameReturn(result, fps, CoreAspect)
  \/ LoadAudioInitDone

\* the pacing loop
LoopSteps ==
  \/ Advance
  \/ Tick
  \/ RunReturn

\* shutdown(), from its call to its end
ShutdownSteps ==
  \/ ShutdownCall
  \/ ShutdownSramMkdirDone
  \/ ShutdownSramDone

\* The bridge and a core that calls back: loadAndStart, the pacing loop and
\* shutdown in any interleaving the event loop allows, the six callbacks
\* invoked by the core from inside its entry points.
Next ==
  \/ LoadSteps
  \/ LoopSteps
  \/ ShutdownSteps
  \/ \E cmd \in EnvCommands, throws \in BOOLEAN : EnvironmentCb(cmd, throws)
  \/ VideoRefreshCb(TRUE, FALSE)
  \/ \E cb \in CollaboratorCallbacks, throws \in BOOLEAN : CollaboratorCb(cb, throws)

Spec == InitHost /\ [][Next]_vars

\* The bridge and its public operations: reset, saveState and loadState
\* called at any time (bin/cli.js binds them to hotkeys before it calls
\* loadAndStart), around loadAndStart and shutdown; the core is silent.
NextOps ==
  \/ LoadSteps
  \/ LoopSteps
  \/ ShutdownSteps
  \/ Reset
  \/ \E size \in {0, 1}, ok \in BOOLEAN : SaveStateCall(size, ok)
  \/ SaveStateMkdirDone
  \/ SaveStateWriteDone
  \/ LoadStateCall
  \/ \E exists \in BOOLEAN : LoadStateReadDone(exists)

SpecOps == InitHost /\ [][NextOps]_vars

\* The render path: the pacing loop of a loaded core whose steps send frames,
\* the video output in each of its modes, and the render worker thread.
NextVideo ==
  \/ LoadSteps
  \/ LoopSteps
  \/ \E dataNull \in BOOLEAN, sinkThrows \in BOOLEAN : VideoRefreshCb(dataNull, sinkThrows)
  \/ VideoInit
  \/ \E n \in FrameSkips : SetFrameSkip(n)
  \/ OnWorkerMessage
  \/ VideoDestroy
  \/ \E ok \in BOOLEAN : WorkerInit(ok)
  \/ \E outcome \in {"ansi", "null", "throw"} : WorkerRender(outcome)

SpecVideo == Init /\ [][NextVideo]_vars

\* The same, the video output constructed with `video: 'sdl'` and the bridge
\* without a save manager
InitWindow ==
  /\ Init
  /\ mode = "sdl"
  /\ ~saveManager

\* the environment callback with a code of the given set
EnvironmentCalls(codes, arrays) ==
  \E cmd \in codes, throws \in BOOLEAN :
    \E data \in EnvData(cmd, arrays) : EnvironmentCall(cmd, data, throws)

\* Pixel format negotiation: a core that sends SET_PIXEL_FORMAT and frames
\* from inside its entry points, the pacing loop running.
NextFormat ==
  \/ LoadStepsWithoutSaves
  \/ LoopSteps
  \/ EnvironmentCalls(FormatCodes, {})
  \/ \E dataNull \in BOOLEAN : VideoRefreshCb(dataNull, FALSE)

SpecFormat == InitWindow /\ [][NextFormat]_vars

\* Core variables: a core that declares and reads variables from inside
\* retro_init and retro_load_game.
NextVariables ==
  \/ LoadStepsWithoutSaves
  \/ EnvironmentCalls(VariableCodes, VariableArrays)

SpecVariables == InitWindow /\ [][NextVariables]_vars

\* The rest of the dispatch: path queries, the declarations the bridge
\* accepts and ignores, commands it does not know, and SHUTDOWN.
NextEnv ==
  \/ LoadStepsWithoutSaves
  \/ ShutdownCall
  \/ EnvironmentCalls(EnvCodes, {})

SpecEnv == InitWindow /\ [][NextEnv]_vars

\* The string registry: a core that asks for every string the bridge hands
\* out, around loadAndStart and shutdown called more than once.
NextStrings ==
  \/ LoadSteps
  \/ ShutdownSteps
  \/ EnvironmentCalls(StringCodes, OneVariable)

SpecStrings == InitHost /\ [][NextStrings]_vars

\* The video output driven directly: init, frames of two sizes in a terminal
\* of two sizes, the option setters, and the render worker thread.
InitVideo ==
  /\ Init
  /\ ~saveManager

\* the frames handed to onFrame (width, height) and the sizes of the terminal
\* (columns, rows) at the time of the call
FrameFormats == {"XRGB8888"}
FrameSizes == {<<2, 1>>, <<2, 2>>}
Terminals == {<<80, 24>>, <<40, 12>>}

\* the values the option setters are called with
SymbolChoices == {"ascii", "bogus"}
ColorChoices == {"2"}

OnFrameCalls(sizes, terminals) ==
  \E f \in FrameFormats, size \in sizes, t \in terminals :
    OnFrameCall(f, size[1], size[2], t[1], t[2])

WorkerSteps ==
  \/ \E ok \in BOOLEAN : WorkerInit(ok)
  \/ \E outcome \in {"ansi", "null", "throw"} : WorkerRender(outcome)

NextRender ==
  \/ VideoInit
  \/ OnWorkerMessage
  \/ WorkerSteps
  \/ OnFrameCalls(FrameSizes, Terminals)
  \/ \E s \in SymbolChoices : SetSymbols(s)
  \/ \E c \in ColorChoices : SetColors(c)
  \/ SetFgOnly(TRUE)
  \/ SetDither(TRUE)

SpecRender == InitVideo /\ [][NextRender]_vars

\* The geometry fit: a terminal-only output whose frames arrive in terminals
\* of many sizes, under several display aspect ratios.
InitTerminal ==
  /\ InitVideo
  /\ mode = "terminal"

\* process.stdout.columns and process.stdout.rows (0: undefined), and the
\* arguments of setAspectRatio
FitColumns == {0, 1, 2, 3, 5, 8, 53, 80}
FitRows == {0, 1, 2, 3, 4, 21, 24}
Aspects == {<<1, 1>>, <<4, 3>>, <<3, 4>>, <<16, 9>>, <<1, 3>>, <<8, 7>>, <<0, 1>>}

NextFit ==
  \/ VideoInit
  \/ OnWorkerMessage
  \/ WorkerInit(TRUE)
  \/ WorkerRender("ansi")
  \/ OnFrameCalls({<<2, 1>>}, FitColumns \X FitRows)
  \/ \E r \in Aspects : SetAspectRatio(r)

SpecFit == InitTerminal /\ [][NextFit]_vars

\* The render scheduler and its worker with every message of the two ports
\* handled in the end: the event loop of each thread runs the handler of a
\* pending message, and frames keep arriving while the caller may send them.
NextLive ==
  \/ VideoInit
  \/ OnWorkerMessage
  \/ WorkerSteps
  \/ OnFrameCalls({<<2, 1>>}, Terminals)

SpecRenderLive ==
  /\ InitVideo
  /\ [][NextLive]_vars
  /\ WF_vars(VideoInit)
  /\ WF_vars(OnWorkerMessage)
  /\ WF_vars(WorkerSteps)
  /\ WF_vars(OnFrameCalls({<<2, 1>>}, Terminals))

\* ------------------------------------------------------------ InputManager
\* The numbers imported from ../constants/libretro.js: those of the libretro
\* API (the joypad ids 0..11 are also spelled out by the key map,
\* InputManager.js:147-160).
Libretro ==
  [DEVICE_JOYPAD |-> 1, DEVICE_ANALOG |-> 2, INDEX_ANALOG_LEFT |-> 0,
   INDEX_ANALOG_RIGHT |-> 1, ID_ANALOG_X |-> 0, ID_ANALOG_Y |-> 1, JOYPAD_MASK |-> 256,
   JOYPAD_B |-> 0, JOYPAD_Y |-> 1, JOYPAD_SELECT |-> 2, JOYPAD_START |-> 3,
   JOYPAD_UP |-> 4, JOYPAD_DOWN |-> 5, JOYPAD_LEFT |-> 6, JOYPAD_RIGHT |-> 7,
   JOYPAD_A |-> 8, JOYPAD_X |-> 9, JOYPAD_L |-> 10, JOYPAD_R |-> 11, JOYPAD_L2 |-> 12,
   JOYPAD_R2 |-> 13, JOYPAD_L3 |-> 14, JOYPAD_R3 |-> 15]

\* W3C_TO_LIBRETRO, the entry of W3C button w at position w + 1
W3C_TO_LIBRETRO ==
  << Libretro.JOYPAD_B, Libretro.JOYPAD_A, Libretro.JOYPAD_Y, Libretro.JOYPAD_X,
     Libretro.JOYPAD_L, Libretro.JOYPAD_R, Libretro.JOYPAD_L2, Libretro.JOYPAD_R2,
     Libretro.JOYPAD_SELECT, Libretro.JOYPAD_START, Libretro.JOYPAD_L3,
     Libretro.JOYPAD_R3, Libretro.JOYPAD_UP, Libretro.JOYPAD_DOWN, Libretro.JOYPAD_LEFT,
     Libretro.JOYPAD_RIGHT, -1 >>

\* LIBRETRO_TO_W3C[id]: an Int8Array(16), zero-filled, then written for W3C
\* buttons 0..15 in order
LIBRETRO_TO_W3C(id) ==
  LET from == {w \in 0..15 : W3C_TO_LIBRETRO[w + 1] = id}
  IN IF from = {} THEN 0 ELSE CHOOSE w \in from : \A v \in from : v <= w

\* axis values are followed in thousandths
AxisUnit == 1000

\* axisToLibretro: Math.round(Math.max(-1, Math.min(1, value)) * 32767);
\* Math.round is the floor of its argument plus a half
axisToLibretro(value) ==
  LET clamped == IF value > AxisUnit THEN AxisUnit
                 ELSE IF value < -AxisUnit THEN -AxisUnit ELSE value
  IN (2 * clamped * 32767 + AxisUnit) \div (2 * AxisUnit)

\* _keyHoldFrames
KeyHoldFrames == 8

\* `if (this._exitComboHeld >= 30)`
ExitComboFrames == 30

\* keyMap of _setupKeyboard, by key name
keyMap ==
  [up |-> 4, down |-> 5, left |-> 6, right |-> 7, z |-> 0, x |-> 8, a |-> 1, s |-> 9,
   return |-> 3, shift |-> 2, q |-> 10, w |-> 11]

\* a gamepad, as navigator.getGamepads() reports it: the number of its
\* buttons, the indices of those pressed, its axes
Gamepad(count, pressed, axes) ==
  [present |-> TRUE, count |-> count, pressed |-> pressed, axes |-> axes]

\* `this.currentGamepads[port]` where the array has no such element
NoGamepad == [present |-> FALSE, count |-> 0, pressed |-> {}, axes |-> <<>>]

\* `const gamepad = this.currentGamepads[port]`
GamepadAt(port) ==
  IF port \in 0..(Len(currentGamepads) - 1) THEN currentGamepads[port + 1] ELSE NoGamepad

\* the keyboard held for ever after a press (a faulty variant)
KeyHeldForEver(port, id) ==
  /\ port = 0
  /\ keyLastPressed[id] # NoPress

\* the keyboard fallback of _getButtonState
KeyHeld(port, id) ==
  /\ port = 0
  /\ keyLastPressed[id] # NoPress
  /\ currentFrame - keyLastPressed[id] < KeyHoldFrames

\* _getButtonState(gamepad, port, id), for the ids 0..15 getState passes
getButtonState(gamepad, port, id) ==
  \/ /\ gamepad.present
     /\ LIBRETRO_TO_W3C(id) >= 0
     /\ LIBRETRO_TO_W3C(id) < gamepad.count
     /\ LIBRETRO_TO_W3C(id) \in gamepad.pressed
  \/ KeyHeld(port, id)

\* 1 << btnId
RECURSIVE Shl1(_)
Shl1(n) == IF n = 0 THEN 1 ELSE 2 * Shl1(n - 1)

\* the bitmask loop of getState from btnId on: `mask |= (1 << btnId)` for
\* each button that reads pressed (the bits are distinct, so OR is the sum)
RECURSIVE MaskFrom(_, _, _)
MaskFrom(gamepad, port, btnId) ==
  IF btnId >= 16 THEN 0
  ELSE (IF getButtonState(gamepad, port, btnId) THEN Shl1(btnId) ELSE 0)
         + MaskFrom(gamepad, port, btnId + 1)

\* getState(port, device, index, id): the value returned, which inputStateCb
\* hands to the core as it is
getState(port, device, index, id) ==
  LET gamepad == GamepadAt(port)
      axisIndex == IF index = Libretro.INDEX_ANALOG_LEFT
                     THEN (IF id = Libretro.ID_ANALOG_X THEN 0 ELSE 1)
                     ELSE (IF id = Libretro.ID_ANALOG_X THEN 2 ELSE 3)
  IN IF device = Libretro.DEVICE_JOYPAD
       THEN IF id = Libretro.JOYPAD_MASK THEN MaskFrom(gamepad, port, 0)
            ELSE IF id < 0 \/ id >= 16 THEN 0
            ELSE IF getButtonState(gamepad, port, id) THEN 1 ELSE 0
     ELSE IF device = Libretro.DEVICE_ANALOG /\ gamepad.present
       THEN IF index \notin {Libretro.INDEX_ANALOG_LEFT, Libretro.INDEX_ANALOG_RIGHT} THEN 0
            ELSE IF axisIndex < Len(gamepad.axes) THEN axisToLibretro(gamepad.axes[axisIndex + 1])
            ELSE 0
     ELSE 0

\* Start and Select both pressed on the first gamepad: `gp.buttons[9]?.pressed`
\* and `gp.buttons[8]?.pressed`
ComboPressed(pads) ==
  /\ 9 < pads[1].count /\ 9 \in pads[1].pressed
  /\ 8 < pads[1].count /\ 8 \in pads[1].pressed

\* _exitComboHeld after a poll() that found the gamepads `pads`: counted up or
\* reset only inside `if (gamepads.length > 0)`
ComboCount(pads, held) ==
  IF Len(pads) > 0
    THEN (IF ComboPressed(pads) THEN held + 1 ELSE 0)
    ELSE held

MaxPolls == 32

\* poll(), gamepads enabled (the default): the counter, the snapshot, the
\* exit combo
Poll ==
  /\ currentFrame < MaxPolls
  /\ currentFrame' = currentFrame + 1
  /\ currentGamepads' = gamepads
  /\ exitComboHeld' = ComboCount(gamepads, exitComboHeld)
  /\ sigints' = IF Len(gamepads) > 0 /\ ComboPressed(gamepads)
                     /\ exitComboHeld' >= ExitComboFrames
                  THEN sigints + 1 ELSE sigints
  /\ comboRun' = IF Len(gamepads) > 0 /\ ComboPressed(gamepads) THEN comboRun + 1 ELSE 0
  /\ lastQuery' = NoQuery
  /\ UNCHANGED <<keyLastPressed, gamepads>>
  /\ UNCHANGED <<hostVars, ctlVars, paceVars, histVars, videoVars, workerVars, envVars,
                 renderVars, saveVars, cliVars>>

\* the stdin 'data' handler of _setupKeyboard for a mapped key: _pressKey
PressKey(keyName) ==
  /\ keyLastPressed' = [keyLastPressed EXCEPT ![keyMap[keyName]] = currentFrame]
  /\ UNCHANGED <<currentFrame, exitComboHeld, gamepads, currentGamepads, sigints,
                 comboRun, lastQuery>>
  /\ UNCHANGED <<hostVars, ctlVars, paceVars, histVars, videoVars, workerVars, envVars,
                 renderVars, saveVars, cliVars>>

\* the gamepads change: connected, removed, buttons and sticks moved
GamepadChange(pads) ==
  /\ pads # gamepads
  /\ gamepads' = pads
  /\ UNCHANGED <<currentFrame, keyLastPressed, exitComboHeld, currentGamepads, sigints,
                 comboRun, lastQuery>>
  /\ UNCHANGED <<hostVars, ctlVars, paceVars, histVars, videoVars, workerVars, envVars,
                 renderVars, saveVars, cliVars>>

\* inputStateCb: the core asks for one value
InputStateCb(port, device, index, id) ==
  /\ lastQuery' = [port |-> port, device |-> device, index |-> index, id |-> id,
                   value |-> getState(port, device, index, id)]
  /\ lastQuery' # lastQuery
  /\ UNCHANGED <<currentFrame, keyLastPressed, exitComboHeld, gamepads, currentGamepads,
                 sigints, comboRun>>
  /\ UNCHANGED <<hostVars, ctlVars, paceVars, histVars, videoVars, workerVars, envVars,
                 renderVars, saveVars, cliVars>>

\* The input manager on its own: polls, key presses and queries in any order,
\* around gamepads that come, go and are played.
PadIdle == Gamepad(17, {}, <<0, 0, 0, 0>>)
PadPlayed == Gamepad(17, {0, 11}, <<1500, -1000, 500, -2000>>)
PadSmall == Gamepad(10, {9, 11}, <<-500, 250>>)
InputPads == {<<>>, <<PadPlayed>>, <<PadIdle, PadSmall>>}
InputKeys == {"z"}
Ports == {0, 1}
StateQueries ==
  {<<Libretro.DEVICE_JOYPAD, 0, id>> : id \in {0, 15, 16, Libretro.JOYPAD_MASK}}
    \cup {<<Libretro.DEVICE_ANALOG, 0, 0>>, <<Libretro.DEVICE_ANALOG, 1, 1>>,
          <<Libretro.DEVICE_ANALOG, 2, 0>>, <<0, 0, 0>>}
MaxKeyPolls == 10

NextInput ==
  \/ currentFrame < MaxKeyPolls /\ Poll
  \/ \E keyName \in InputKeys : PressKey(keyName)
  \/ \E pads \in InputPads : GamepadChange(pads)
  \/ \E port \in Ports, q \in StateQueries : InputStateCb(port, q[1], q[2], q[3])

InitInputHost ==
  /\ InitHost
  /\ saveManager

SpecInput == InitInputHost /\ [][NextInput]_vars

\* The exit combo: polls around a first gamepad that is absent, idle, or has
\* Start, or Start and Select, pressed.
ComboPads ==
  {<<>>, <<PadIdle>>, <<Gamepad(17, {9}, <<>>)>>, <<Gamepad(17, {8, 9}, <<>>)>>}

NextCombo ==
  \/ Poll
  \/ \E pads \in ComboPads : GamepadChange(pads)

SpecCombo == InitInputHost /\ [][NextCombo]_vars

\* ---------------------------------------------------------------- bin/cli.js
\* shutdown() of bin/cli.js without its flag (a faulty variant)
CliShutdownUnguarded ==
  /\ shuttingDown' = TRUE
  /\ cliPc' = "awaitHost"
  /\ HostShutdown

\* shutdown() of bin/cli.js, up to its `await host.shutdown()`:
\* `if (shuttingDown) return; shuttingDown = true`
CliShutdown ==
  IF shuttingDown
    THEN UNCHANGED <<hostVars, ctlVars, paceVars, histVars, videoVars, workerVars, envVars,
                     renderVars, shuttingDown, cliPc>>
    ELSE /\ shuttingDown' = TRUE
         /\ cliPc' = "awaitHost"
         /\ HostShutdown

MaxQuitEvents == 3

\* ESC has reached the input manager's stdin handler and not yet the front end's
EscPending == quitEvents # <<>> /\ quitEvents[Len(quitEvents)] = "ESC"

\* the front end is running and no stdin event is half delivered
CliRuns == cliPc # "exited" /\ ~EscPending

\* the quit events that end in shutdown(): the signals SIGINT and SIGTERM
\* (process.on), ESC or Ctrl+C at the input manager's stdin handler
\* (process.emit('SIGINT')), and the gamepad combo, whose SIGINT is emitted by
\* poll() from inside retro_run
QuitSources == {"SIGINT", "SIGTERM", "ESC", "combo"}

\* One quit event, delivered once the handlers are registered and loadAndStart
\* has been called: the handler runs shutdown().
QuitEvent(source) ==
  /\ Len(quitEvents) < MaxQuitEvents
  /\ loadPc # "idle"
  /\ inCore = IF source = "combo" THEN "run" ELSE "none"
  /\ quitEvents' = Append(quitEvents, source)
  /\ CliShutdown
  /\ UNCHANGED <<terminalRestores, saveVars, inputVars>>

\* The same ESC at the front end's own stdin handler, registered after the
\* input manager's: `await shutdown()` once more.
CliEscSecond ==
  /\ EscPending
  /\ quitEvents' = [quitEvents EXCEPT ![Len(quitEvents)] = "ESC_twice"]
  /\ CliShutdown
  /\ UNCHANGED <<terminalRestores, saveVars, inputVars>>

\* host.shutdown() resolved: inputManager.destroy(), the terminal restored,
\* process.exit(0), whose 'exit' handler restores it a second time
CliShutdownDone ==
  /\ inCore = "none"
  /\ cliPc = "awaitHost"
  /\ shutdownPc = "done"
  /\ cliPc' = "exited"
  /\ terminalRestores' = terminalRestores + 2
  /\ UNCHANGED <<hostVars, ctlVars, paceVars, histVars, videoVars, workerVars, envVars,
                 renderVars, saveVars, inputVars, shuttingDown, quitEvents>>

\* loadAndStart rejected: the catch restores the terminal and calls
\* process.exit(1); the 'exit' handler restores it again
CliLoadFailed ==
  /\ inCore = "none"
  /\ loadPc = "failed"
  /\ cliPc' = "exited"
  /\ terminalRestores' = terminalRestores + 2
  /\ UNCHANGED <<hostVars, ctlVars, paceVars, histVars, videoVars, workerVars, envVars,
                 renderVars, saveVars, inputVars, shuttingDown, quitEvents>>

\* the window is closed (SDLRenderer.js:21-24): the window destroyed and
\* process.exit(0) at once; the 'exit' handler restores the terminal
WindowClose ==
  /\ inCore = "none"
  /\ sdlRenderer # "null"
  /\ Len(quitEvents) < MaxQuitEvents
  /\ quitEvents' = Append(quitEvents, "window")
  /\ cliPc' = "exited"
  /\ terminalRestores' = terminalRestores + 1
  /\ UNCHANGED <<hostVars, ctlVars, paceVars, histVars, videoVars, workerVars, envVars,
                 renderVars, saveVars, inputVars, shuttingDown>>

\* bin/cli.js from `new VideoOutput(...)` on: a terminal mode or both sinks,
\* the bridge given a save manager
InitCliProgram ==
  /\ Init
  /\ mode \in {"terminal", "both"}
  /\ saveManager

\* The command-line program: the video output initialised first, then
\* loadAndStart and the pacing loop, quit events from every source at any
\* time, shutdown and the exit of the process (after which nothing runs).
NextCli ==
  \/ CliRuns /\ VideoInit
  \/ CliRuns /\ WorkerInit(TRUE)
  \/ CliRuns /\ OnWorkerMessage
  \/ CliRuns /\ videoInitPc = "done" /\ LoadSteps
  \/ CliRuns /\ LoopSteps
  \/ CliRuns /\ ShutdownSramMkdirDone
  \/ CliRuns /\ ShutdownSramDone
  \/ CliRuns /\ \E source \in QuitSources : QuitEvent(source)
  \/ CliEscSecond
  \/ CliRuns /\ CliShutdownDone
  \/ CliRuns /\ CliLoadFailed
  \/ CliRuns /\ WindowClose

SpecCli == InitCliProgram /\ [][NextCli]_vars

\* Battery RAM across a session: the save file found on disk is absent, of
\* the region's size, shorter or longer; the core may store into the region
\* while it runs.
SaveFiles ==
  {NoSaveFile} \cup {[exists |-> TRUE, length |-> l, data |-> "old"] :
                        l \in {SramSize - 1, SramSize, SramSize + 1}}

InitSavesOnDisk ==
  /\ InitObjects
  /\ InitConverter
  /\ mode = "terminal"
  /\ saveFile \in SaveFiles
  /\ sramData = "fresh"
  /\ InitInput
  /\ InitCli

NextSaves ==
  \/ LoadSteps
  \/ LoopSteps
  \/ CoreStoresSram
  \/ ShutdownSteps

SpecSaves == InitSavesOnDisk /\ [][NextSaves]_vars

\* The AV descriptor: loadAndStart of a core whose descriptor holds any of
\* these aspect ratios (0: the core leaves the choice to the frontend; 1333 /
\* 1000 is the aspect 1.333 of the end-to-end example), and the pacing loop.
AspectValues == {<<0, 1>>, <<4, 3>>, <<1333, 1000>>, <<8, 7>>}

NextAV ==
  \/ LoadStepsWithoutSaves
  \/ \E fps \in FpsValues, aspect \in AspectValues : LoadGameReturn(1, fps, aspect)
  \/ LoopSteps

SpecAV == InitWindow /\ [][NextAV]_vars

\* The pixel converter: one pixel of each source encoding through _convertToRGBA.
ByteSamples == {0, 1, 128, 255}
SourcePixels(format) ==
  IF format = "XRGB8888"
    THEN {<<x * 256 + r, g * 256 + b>> : x, r, g, b \in ByteSamples}
    ELSE {<<0, p>> : p \in 0..65535}

InitPixels ==
  /\ InitObjects
  /\ mode = "terminal"
  /\ ~saveManager
  /\ srcFormat \in SupportedFormats
  /\ srcPixel \in SourcePixels(srcFormat)
  /\ rgbaPixel = <<>>
  /\ InitSaves
  /\ InitInput
  /\ InitCli

NextPixels == ConvertPixel

SpecPixels == InitPixels /\ [][NextPixels]_vars

\* ===================================================================== claims
\* an armed tick is due, no other code is running, the bridge is running and
\* the frame interval has elapsed
StepDue ==
  /\ inCore = "none"
  /\ armedTicks > 0
  /\ now >= tickDue
  /\ running
  /\ now - lastFrameTime >= FrameDurationMs(systemAVInfo)

\* C1: in every interleaving of onFrame calls and worker messages, the number
\* of 'render' requests posted minus the number of 'frame' completions
\* received is 0 or 1, a request being outstanding exactly while pendingFrame
\* is set after a post; and no step posts a request while one is outstanding:
\* the frame that arrives then is dropped, neither queued nor sent later.
C1_AtMostOneOutstanding ==
  /\ [](posted - completed \in {0, 1})
  /\ [](posted - completed = 1 => pendingFrame)
  /\ [](Len(toWorker) <= 1)
  /\ [][posted - completed = 1 => posted' = posted /\ toWorker' # Append(toWorker, "render")]_vars

\* C1 witness: a frame due for the terminal arrived while a request was
\* outstanding and was discarded; the first request is still the only one.
C1_Witness ==
  /\ dropped
  /\ posted = 1
  /\ completed = 0
  /\ pendingFrame
  /\ frameCount >= 2

\* C2: the stepping loop is never blocked by rendering.  Whatever the state of
\* the render worker, a due tick whose interval has elapsed can run and runs
\* the core step; during a step the core can hand over a frame whatever the
\* worker's state, and the video callback consumes no worker message: it ends
\* (returning or throwing) in the same event-loop turn.
C2_LoopNeverBlocked ==
  /\ [](StepDue => ENABLED (Tick /\ inCore' = "run"))
  /\ [](inCore = "run" /\ cbCount < MaxCallbacks => ENABLED VideoRefreshCb(FALSE, FALSE))
  /\ [][inCore = "run" /\ frameCount' # frameCount
          => fromWorker' = fromWorker /\ completed' = completed
             /\ (inCore' = "run" \/ fault' = "video_refresh")]_vars

\* C2 witness: a core step has just been entered by a tick while a render
\* request is outstanding at the worker.
C2_Witness ==
  /\ inCore = "run"
  /\ cbCount = 0
  /\ pendingFrame
  /\ posted - completed = 1
  /\ hostFrameCount >= 1

\* C3: once shutdown() has been called, no further core step (retro_run) is
\* entered, in every interleaving of shutdown's awaits with armed ticks and
\* with a loadAndStart still suspended at one of its awaits.
C3_NoStepAfterShutdown ==
  [][shutdownCalls > 0 /\ inCore # "run" => inCore' # "run"]_vars

\* the place of an event in the order shutdown() is to follow (0: not ordered)
ShutdownRank(e) ==
  CASE e = "stop" -> 1
    [] e = "sram_write" -> 2
    [] e = "retro_unload_game" -> 3
    [] e = "retro_deinit" -> 4
    [] e = "free" -> 5
    [] e = "registry_released" -> 6
    [] OTHER -> 0

\* the events of a log follow the order, each stage but the frees at most once
InShutdownOrder(l) ==
  \A i, j \in 1..Len(l) :
    (i < j /\ ShutdownRank(l[i]) > 0 /\ ShutdownRank(l[j]) > 0)
      => \/ ShutdownRank(l[i]) < ShutdownRank(l[j])
         \/ (l[i] = "free" /\ l[j] = "free")

\* the number of events e in a log
CountOf(l, e) == Cardinality({i \in 1..Len(l) : l[i] = e})

\* the index of the last "stop" of a log (0: none)
LastStop(l) ==
  IF \E i \in 1..Len(l) : l[i] = "stop"
    THEN CHOOSE i \in 1..Len(l) : l[i] = "stop" /\ \A j \in (i+1)..Len(l) : l[j] # "stop"
    ELSE 0

\* the events of the latest shutdown() call
LatestShutdown ==
  IF LastStop(shutdownLog) = 0
    THEN <<>>
    ELSE SubSeq(shutdownLog, LastStop(shutdownLog), Len(shutdownLog))

\* a shutdown() has released the registry of a loaded core
RegistryReleased == "registry_released" \in Range(shutdownLog)

\* this step issues a persistence write (battery RAM or save state)
WriteAttempted ==
  \/ CountOf(opLog', "state_write") > CountOf(opLog, "state_write")
  \/ CountOf(shutdownLog', "sram_write") > CountOf(shutdownLog, "sram_write")

\* C4: a shutdown() of a loaded core halts the pacing, writes the battery RAM,
\* calls unload_game, then deinit, then frees every pointer of the registry,
\* in this order; and no persistence write (battery RAM or save state) is
\* attempted once the registry has been released.
C4_ShutdownOrderNoLateWrite ==
  /\ [](InShutdownOrder(LatestShutdown))
  /\ []("registry_released" \in Range(LatestShutdown)
          => /\ CountOf(LatestShutdown, "retro_unload_game") = 1
             /\ CountOf(LatestShutdown, "retro_deinit") = 1
             /\ (coreHasSram /\ saveManager => CountOf(LatestShutdown, "sram_write") = 1))
  /\ [][RegistryReleased => ~WriteAttempted]_vars

\* the index of event e in a log (0: it does not occur)
Pos(l, e) ==
  IF \E i \in 1..Len(l) : l[i] = e THEN CHOOSE i \in 1..Len(l) : l[i] = e ELSE 0

\* event a occurs in the log, and before event b if b occurs
Before(l, a, b) ==
  /\ Pos(l, a) > 0
  /\ Pos(l, b) > 0 => Pos(l, a) < Pos(l, b)

\* what loadAndStart has done, in order, before it enters Running
StartRequirements ==
  <<"retro_load_game", "retro_get_system_av_info", "setAspectRatio", "audio_init",
    "retro_set_controller_port_device", "running">>

\* the order of loadAndStart's log up to Running; sram: the battery-RAM
\* load is required
LoadOrder(sram) ==
  /\ Pos(loadLog, "retro_init") > 0
       => \A k \in 1..Len(RegisterCallbacks) : Before(loadLog, RegisterCallbacks[k], "retro_init")
  /\ Pos(loadLog, "retro_load_game") > 0 => Before(loadLog, "retro_init", "retro_load_game")
  /\ Pos(loadLog, "running") > 0
       => /\ loadError = "none"
          /\ \A k \in 1..(Len(StartRequirements) - 1) :
               Before(loadLog, StartRequirements[k], StartRequirements[k + 1])
          /\ sram => /\ Before(loadLog, "audio_init", "loadSRAM")
                     /\ Before(loadLog, "loadSRAM", "loadSRAM_done")
                     /\ Before(loadLog, "loadSRAM_done", "retro_set_controller_port_device")

\* the bridge is or was in Running: a step can be, is being or was executed
EnteredRunning == running \/ inCore = "run" \/ hostFrameCount > 0

\* loadAndStart has run to its end, which is the entry into Running
LoadCompleted == Len(loadLog) > 0 /\ loadLog[Len(loadLog)] = "running"

\* C5 as stated: the six callbacks are registered before retro_init, init
\* precedes load-game, and Running is entered only after load-game returned
\* true, the AV descriptor was read, aspect ratio and audio sample rate were
\* configured, the battery-RAM load was requested and completed, and the
\* controller port device was set.
C5_RunningOnlyAfterSetup ==
  /\ [](EnteredRunning => LoadCompleted)
  /\ [][loadLog' # loadLog => LoadOrder(TRUE)']_vars

\* C5 amended: the same, the battery-RAM load being requested and completed
\* before Running when the host was constructed with a save manager.
C5_RunningOnlyAfterSetupWithManager ==
  /\ [](EnteredRunning => LoadCompleted)
  /\ [][loadLog' # loadLog => LoadOrder(saveManager)']_vars

\* C5 witness: the first core step of a host with a save manager, entered
\* after the battery-RAM load completed.
C5_Witness ==
  /\ inCore = "run"
  /\ hostFrameCount = 0
  /\ saveManager
  /\ Pos(loadLog, "loadSRAM_done") > 0

\* the three fatal-at-load conditions, as the error loadAndStart rejects with
FatalLoadErrors == {"core_not_found", "unsupported_api_version", "load_game_failed"}

\* C6: a core module that is not found, an API version other than 1, and a
\* load-game that returns false each make loadAndStart reject, each with its
\* own error; from then on the bridge is not Running, no tick is armed and no
\* core step is ever executed.
C6_FatalLoadErrors ==
  /\ [](\A f \in CoreFiles :
          /\ ~f.exists => LoadCore(f).error = "core_not_found"
          /\ f.exists /\ f.exportsApiVersion /\ f.apiVersion # 1
               => LoadCore(f).error = "unsupported_api_version")
  /\ [][inCore = "load_game" /\ inCore' = "none" /\ fault' = fault
          => (loadPc' = "failed" <=> loadError' = "load_game_failed")]_vars
  /\ [](loadError \in FatalLoadErrors
          => loadPc = "failed" /\ ~running /\ inCore # "run" /\ armedTicks = 0
             /\ hostFrameCount = 0)
  /\ [][(loadError \in FatalLoadErrors) => (loadError' = loadError /\ loadPc' = loadPc)]_vars

\* C6 witness: load-game returned false; loadAndStart has rejected and a later
\* shutdown has completed, with no step executed.
C6_Witness ==
  /\ loadError = "load_game_failed"
  /\ loadPc = "failed"
  /\ shutdownPc = "done"
  /\ hostFrameCount = 0

\* C7: at the moment loadAndStart fails with a fatal-at-load error, the
\* allocated-string registry is empty and no foreign-memory block (ROM copy,
\* game descriptor, path string) is left allocated.
C7_NothingAllocatedAtFailure ==
  [][loadError = "none" /\ loadError' \in FatalLoadErrors
      => allocatedStrings' = <<>> /\ heap' = {}]_vars

\* C8: for each of the six callbacks, an exception thrown by the host-side
\* handler does not propagate into the core's call stack (the callback
\* returns a safe default and a diagnostic is recorded): no exception of a
\* handler ever crosses into the core.
C8_ExceptionsContained == fault = "none"

\* the entry points of the core module, as logged
CoreEntryPoints ==
  {"retro_run", "retro_reset", "retro_serialize_size", "retro_serialize",
   "retro_unserialize", "retro_unload_game", "retro_deinit",
   "retro_get_memory_data", "retro_get_memory_size", "malloc", "free"}

\* the number of calls of core entry points in a log
CoreCallCount(l) == Cardinality({i \in 1..Len(l) : l[i] \in CoreEntryPoints})

\* C9: after shutdown() has completed, a public operation of the bridge
\* (reset, saveState, loadState, a second shutdown) that is called invokes no
\* entry point of the core.
C9_ShutDownIsTerminal ==
  [][(shutdownPc = "done" /\ (publicOps' # publicOps \/ shutdownCalls' # shutdownCalls))
      => /\ CoreCallCount(opLog') = CoreCallCount(opLog)
         /\ CoreCallCount(shutdownLog') = CoreCallCount(shutdownLog)]_vars

\* C10: once the environment callback has handled the shutdown-request
\* command (during retro_init, retro_load_game or a step) and the entry point
\* in which it was handled has returned, no core step is executed.
C10_NoStepAfterShutdownRequest ==
  [][shutdownRequested /\ inCore # "run" => inCore' # "run"]_vars


\* the step is an environment call dispatched in full that returned to the
\* core, of the command with the given number
EnvStep(code) ==
  /\ envCalls' = envCalls + 1
  /\ inCore' = inCore
  /\ envOut'.cmd % ExperimentalBit = code

\* C11: SET_PIXEL_FORMAT with a code other than the three supported encodings
\* returns false and leaves the active pixel format as it was; with a supported
\* code it returns true and records it; no other step changes the active
\* format, and every frame handed to onFrame after that is converted with it.
C11_PixelFormatNegotiation ==
  [][/\ EnvStep(CommandCode.SET_PIXEL_FORMAT) =>
          IF envOut'.arg \in {"0RGB1555", "XRGB8888", "RGB565"}
            THEN cbRet' = 1 /\ pixelFormat' = envOut'.arg
            ELSE cbRet' = 0 /\ pixelFormat' = pixelFormat
     /\ ~EnvStep(CommandCode.SET_PIXEL_FORMAT) => pixelFormat' = pixelFormat
     /\ frameCount' # frameCount =>
          /\ conversions' = conversions + 1
          /\ convertedWith' = pixelFormat]_vars

\* a frame was converted with an accepted format that is not the default, and
\* a request for an unsupported one has just been refused
C11_Witness ==
  /\ convertedWith = "RGB565"
  /\ conversions > 0
  /\ envOut.cmd = CommandCode.SET_PIXEL_FORMAT
  /\ envOut.arg = "99"
  /\ cbRet = 0
  /\ pixelFormat = "RGB565"


\* where the first '; ' of a text starts
SeparatorAt(text) ==
  CHOOSE i \in 1..(Len(text) - 1) :
    /\ text[i] = ";" /\ text[i + 1] = " "
    /\ \A j \in 1..(i - 1) : ~(text[j] = ";" /\ text[j + 1] = " ")

\* the first option a declaration text lists: what follows its '; ', up to
\* the first '|'
FirstListed(text) ==
  LET rest == SubSeq(text, SeparatorAt(text) + 2, Len(text))
      n == CHOOSE m \in 0..Len(rest) :
             /\ \A j \in 1..m : rest[j] # "|"
             /\ m < Len(rest) => rest[m + 1] = "|"
  IN SubSeq(rest, 1, n)

\* the declarations of a key that list options
Listed(key) == {e \in declared : e.key = key /\ e.text # <<>>}

EndOf(array) ==
  CHOOSE n \in 1..Len(array) :
    /\ array[n][1] = NullKey
    /\ \A j \in 1..(n - 1) : array[j][1] # NullKey

\* a text has the '; ' that separates the description from the options
WellFormed(text) == \E j \in 1..(Len(text) - 1) : text[j] = ";" /\ text[j + 1] = " "

\* the options of a list, joined by '|'
RECURSIVE Joined(_)
Joined(options) ==
  IF Len(options) = 1 THEN options[1]
  ELSE options[1] \o <<"|">> \o Joined(Tail(options))

\* a table entry holds what a declaration text says: the description before
\* the '; ', the options after it in their order, the first one as the value
Holds(v, text) ==
  /\ v.description = SubSeq(text, 1, SeparatorAt(text) - 1)
  /\ Len(v.options) >= 1
  /\ \A o \in Range(v.options) : "|" \notin Range(o)
  /\ Joined(v.options) = SubSeq(text, SeparatorAt(text) + 2, Len(text))
  /\ v.value = v.options[1]
  /\ v.value = FirstListed(text)

\* C13 as stated: after SET_VARIABLES every key declared in the array, up to
\* its NULL-key terminator, has an entry in the variable table, so that
\* GET_VARIABLE answers it.
C13_EveryDeclaredKeyStored ==
  [][EnvStep(CommandCode.SET_VARIABLES) =>
       LET array == envOut'.array
       IN \A i \in 1..(EndOf(array) - 1) :
            \E v \in coreVariables' : v.key = array[i][1]]_vars

\* C13, amended: SET_VARIABLES returns true; for every key declared, up to the
\* NULL-key terminator, with a text that has the '; ', the table then holds one
\* entry with the description, the options in order and the first option as
\* the value of the last such text; every other key keeps the entry it had or
\* had not, entries past the terminator and texts without '; ' storing nothing.
C13_WellFormedDeclaredStored ==
  [][EnvStep(CommandCode.SET_VARIABLES) =>
       LET array == envOut'.array
           read == 1..(EndOf(array) - 1)
           stored == {i \in read : WellFormed(array[i][2])}
           last(key) == CHOOSE i \in stored :
                          /\ array[i][1] = key
                          /\ \A j \in stored : array[j][1] = key => j <= i
       IN /\ cbRet' = 1
          /\ \A i \in stored :
               LET of == {v \in coreVariables' : v.key = array[i][1]}
               IN /\ Cardinality(of) = 1
                  /\ \A v \in of : Holds(v, array[last(array[i][1])][2])
          /\ \A v \in coreVariables' :
               (\A i \in stored : array[i][1] # v.key) => v \in coreVariables
          /\ \A v \in coreVariables :
               (\A i \in stored : array[i][1] # v.key) => v \in coreVariables']_vars

\* an array of two declarations was walked: the one with the '; ' is stored,
\* the one without is not
C13_Witness ==
  /\ envOut.cmd = CommandCode.SET_VARIABLES
  /\ Len(envOut.array) = 3
  /\ envOut.array[1][1] = "k1" /\ ~WellFormed(envOut.array[1][2])
  /\ envOut.array[2][1] = "k2" /\ WellFormed(envOut.array[2][2])
  /\ EndOf(envOut.array) = 3
  /\ {v.key : v \in coreVariables} = {"k2"}
  /\ cbRet = 1


\* two outcomes of the dispatch are the same result and the same change of
\* the bridge: return value, pixel format, variable table, dirty flag,
\* recorded codes, the code a diagnostic line is about, the string handed
\* out, the number written and the call of stop()
SameOutcome(a, b) ==
  /\ a.ret = b.ret
  /\ a.pixelFormat = b.pixelFormat
  /\ a.coreVariables = b.coreVariables
  /\ a.variablesUpdated = b.variablesUpdated
  /\ a.loggedEnvCalls = b.loggedEnvCalls
  /\ Len(a.envLog) = Len(b.envLog)
  /\ \A i \in 1..Len(a.envLog) : a.envLog[i][1] = b.envLog[i][1]
  /\ a.stop = b.stop
  /\ a.alloc = b.alloc
  /\ a.text = b.text
  /\ a.value = b.value

\* C14: in every state of the bridge and for every command code c, with any
\* data, the dispatch of c with the experimental bit set returns what the
\* dispatch of c returns and changes the bridge as it does.
C14_ExperimentalBitMasked ==
  \A c \in {CommandCode[n] : n \in DOMAIN CommandCode} \cup {UnlistedCode} :
    \A data \in EnvData(c, VariableArrays) :
      SameOutcome(HandleEnvironment(c + ExperimentalBit, data), HandleEnvironment(c, data))

\* a command sent with the experimental bit has been dispatched as the
\* command it is, in a bridge that holds variables and a recorded code
C14_Witness ==
  /\ envOut.cmd = CommandCode.GET_VARIABLE + ExperimentalBit
  /\ envOut.arg = "k2"
  /\ cbRet = 1
  /\ envOut.value > 0
  /\ loggedEnvCalls # {}
  /\ coreVariables # {}


\* the codes of the model that no case of the switch matches
Unrecognized == {CommandCode.SET_CORE_OPTIONS_V2, UnlistedCode}

\* the diagnostic lines about a code
LinesAbout(log, code) == {i \in 1..Len(log) : log[i][1] = code}

\* C15: an environment call with an unrecognized code returns false to the
\* core, throws nothing, and leaves pixel format, variable table, string
\* registry and running flag as they were; the code is recorded, with one
\* diagnostic line, when it was not recorded before and not otherwise, so each
\* unrecognized code sent has exactly one line however often it is sent.
C15_UnrecognizedCommand ==
  [][(envCalls' = envCalls + 1 /\ envOut'.cmd % ExperimentalBit \in Unrecognized) =>
       LET code == envOut'.cmd % ExperimentalBit
       IN /\ inCore' = inCore
          /\ fault' = fault
          /\ cbRet' = 0
          /\ UNCHANGED <<pixelFormat, coreVariables, variablesUpdated, allocatedStrings,
                         heap, running>>
          /\ loggedEnvCalls' = loggedEnvCalls \cup {code}
          /\ Cardinality(LinesAbout(envLog', code)) = 1
          /\ \A other \in Unrecognized \ {code} :
               LinesAbout(envLog', other) = LinesAbout(envLog, other)
          /\ Len(envLog') = Len(envLog) + (IF LinesAbout(envLog, code) = {} THEN 1 ELSE 0)]_vars

\* two unrecognized codes were sent, one of them twice: each has one line
C15_Witness ==
  /\ envCalls = 3
  /\ envOut.cmd % ExperimentalBit \in Unrecognized
  /\ loggedEnvCalls = Unrecognized
  /\ Len(envLog) = 2
  /\ cbRet = 0
  /\ fault = "none"


\* the declarations of geometry, rotation, controller info, memory maps,
\* subsystems, performance level, achievement support and serialization quirks
Declarations ==
  {CommandCode.SET_GEOMETRY, CommandCode.SET_ROTATION, CommandCode.SET_CONTROLLER_INFO,
   CommandCode.SET_MEMORY_MAPS, CommandCode.SET_SUBSYSTEM_INFO,
   CommandCode.SET_PERFORMANCE_LEVEL, CommandCode.SET_SUPPORT_ACHIEVEMENTS,
   CommandCode.SET_SERIALIZATION_QUIRKS}

\* C16: each of the eight declarations returns true to the core and leaves
\* the bridge state as it was: pixel format, variable table, dirty flag,
\* string registry and running flag, and the recorded unknown codes as well.
C16_DeclarationsAcceptedAndIgnored ==
  [][(envCalls' = envCalls + 1 /\ envOut'.cmd % ExperimentalBit \in Declarations) =>
       /\ inCore' = inCore
       /\ cbRet' = 1
       /\ envOut'.value = -1
       /\ UNCHANGED <<pixelFormat, coreVariables, variablesUpdated, allocatedStrings,
                      heap, running, loggedEnvCalls, envLog>>]_vars

\* a declaration was accepted by a bridge that had handed out a string and
\* recorded an unknown code
C16_Witness ==
  /\ envOut.cmd % ExperimentalBit \in Declarations
  /\ cbRet = 1
  /\ allocatedStrings # <<>>
  /\ loggedEnvCalls # {}


\* the string blocks of the heap
StringBlocks(h) == {b \in h : b[2] = "string"}

\* the registry names live blocks, each once
RegistryLive(registry, h) ==
  /\ \A i \in 1..Len(registry) : <<registry[i], "string">> \in h
  /\ \A i, j \in 1..Len(registry) : registry[i] = registry[j] => i = j

\* C17: every string the bridge copies for the core (a path, the user name,
\* a variable value, the game path) is entered in the registry when it is
\* allocated, and the pointer an environment command hands out is that entry;
\* registry entries are live and distinct; a string is freed in no step but
\* the release of a shutdown, which frees every entry of the registry, once
\* each, and empties it, so that a later shutdown frees none of them again.
C17_StringRegistry ==
  [][/\ RegistryLive(allocatedStrings, heap)
     /\ RegistryLive(allocatedStrings', heap')
     /\ \A b \in StringBlocks(heap') \ StringBlocks(heap) :
          /\ b[1] \in Range(allocatedStrings')
          /\ b[1] \notin Range(allocatedStrings)
     /\ (envCalls' = envCalls + 1 /\ inCore' = inCore /\ envOut'.text # <<>>) =>
          /\ envOut'.value \in Range(allocatedStrings')
          /\ envOut'.value \notin Range(allocatedStrings)
     /\ IF StringBlocks(heap) \ StringBlocks(heap') # {} \/ allocatedStrings' = <<>>
          THEN \/ allocatedStrings = <<>> /\ StringBlocks(heap') = StringBlocks(heap)
               \/ /\ shutdownPc' = "done"
                  /\ shutdownLog' # shutdownLog
                  /\ allocatedStrings' = <<>>
                  /\ StringBlocks(heap) \ StringBlocks(heap')
                       = {<<p, "string">> : p \in Range(allocatedStrings)}
                  /\ CountOf(shutdownLog', "free") - CountOf(shutdownLog, "free")
                       = Len(allocatedStrings)
          ELSE \/ allocatedStrings' = allocatedStrings
               \/ /\ Len(allocatedStrings') = Len(allocatedStrings) + 1
                  /\ SubSeq(allocatedStrings', 1, Len(allocatedStrings)) = allocatedStrings]_vars

\* shutdown was called twice and each call freed strings: the second those
\* handed out since the first, and no string is left
C17_Witness ==
  /\ shutdownCalls = 2
  /\ shutdownPc = "done"
  /\ allocatedStrings = <<>>
  /\ StringBlocks(heap) = {}
  /\ CountOf(shutdownLog, "free") = 4
  /\ \E i, j, k \in 1..Len(shutdownLog) :
       /\ i < j /\ j < k
       /\ shutdownLog[i] = "free"
       /\ shutdownLog[j] = "registry_released"
       /\ shutdownLog[k] = "free"


\* C18: a video refresh with a null data pointer changes nothing: the frame
\* counter of the decimation stays, no pixel conversion is made, nothing is
\* rendered to the window and nothing is sent to the terminal worker.
C18_NullFrameNoOp ==
  [][(cbCount' = cbCount + 1 /\ lastData' = "null") =>
       /\ cbRet' = 0
       /\ UNCHANGED <<frameCount, conversions, convertedWith, sdlRenders, posted,
                      toWorker, pendingFrame, dropped, fault>>]_vars

\* a null refresh came to a video output with a window and a ready worker,
\* at a count whose next frame is due for the terminal
C18_Witness ==
  /\ lastData = "null"
  /\ mode = "both"
  /\ sdlRenderer # "null"
  /\ workerReady /\ ~pendingFrame
  /\ (frameCount + 1) % renderEveryN = 0
  /\ inCore = "run"


\* C19: the frame-skip N is 2 at first and setFrameSkip keeps it an integer
\* of at least 1; the frame counter counts the non-null frames; a frame is
\* sent to the terminal worker, or marked outstanding, only in the refresh
\* that brings it, and only when its number is a multiple of N.
C19_OnlyEveryNthDispatched ==
  /\ renderEveryN = 2
  /\ [][/\ renderEveryN' \in Nat /\ renderEveryN' >= 1
        /\ frameCount' # frameCount <=> (cbCount' = cbCount + 1 /\ lastData' = "frame")
        /\ frameCount' # frameCount => frameCount' = frameCount + 1
        /\ (posted' # posted \/ (pendingFrame' /\ ~pendingFrame)
              \/ Len(toWorker') > Len(toWorker)) =>
             /\ frameCount' = frameCount + 1
             /\ frameCount' % renderEveryN = 0
             /\ renderEveryN' = renderEveryN]_vars

\* the second frame was sent to the worker under the default frame-skip, the
\* first was not
C19_Witness ==
  /\ renderEveryN = 2
  /\ frameCount = 2
  /\ posted = 1
  /\ toWorker = <<"render">>
  /\ pendingFrame


Posts == posted' = posted + 1

\* the request posted by the step
Posted == renderRequests'[Len(renderRequests')]

\* C21: buffer ownership is decided per dispatched frame.  With only the
\* terminal consumer active the storage of the buffer is transferred to the
\* worker, the sender keeps no reference to it and its next conversion fills
\* a new array; with the windowed sink active too the buffer is duplicated,
\* not transferred, and the main thread keeps a valid copy of it.  The array
\* the sender holds is never one whose storage was transferred.
C21_BufferOwnership ==
  /\ [](rgbaBuffer \notin detached)
  /\ [][Posts /\ mode = "terminal" =>
          /\ Posted.buffer \in detached'
          /\ rgbaBuffer' = 0]_vars
  /\ [][conversions' # conversions /\ rgbaBuffer = 0 => allocated' = allocated + 1]_vars
  /\ [][Posts /\ mode = "both" =>
          /\ Posted.buffer \notin detached'
          /\ rgbaBuffer' = Posted.buffer]_vars

\* the worker has taken the request that is outstanding and has posted no text
\* for it: the engine gave no output, or the thread died with an 'error'
LeftWithoutOutput ==
  /\ pendingFrame
  /\ posted = completed + 1
  /\ toWorker = <<>>
  /\ \A i \in 1..Len(fromWorker) : fromWorker[i] # "frame"

\* C22: when the conversion engine gives no output for a dispatched frame, or
\* the worker reports an error after it became ready, the frame is dropped
\* without a retry and the scheduler returns to idle: the busy flag is
\* cleared in the end (so that a later eligible frame can be dispatched).
C22_BusyFlagCleared ==
  /\ [][LeftWithoutOutput => posted' = posted]_vars
  /\ (LeftWithoutOutput ~> ~pendingFrame)

\* C23: every write of a completed terminal frame is one write whose content
\* is the cursor-home sequence, then the whole text of one completed render
\* request (the one the 'frame' message being handled carries, a request that
\* was posted and whose text was not written before), then the status line; a
\* write is made for a 'frame' message only, once, and no write holds frame
\* text that the cursor-home sequence does not precede.
C23_FrameWrites ==
  /\ [][stdoutWrites' # stdoutWrites =>
          LET text == Head(frameTexts) IN
          /\ stdoutWrites' = stdoutWrites + 1
          /\ fromWorker # <<>>
          /\ Head(fromWorker) = "frame"
          /\ fromWorker' = Tail(fromWorker)
          /\ completed' = completed + 1
          /\ text \in 1..posted
          /\ lastWrite # <<>> => lastWrite[2][2] < text
          /\ lastWrite' = << CursorHome, <<"ansi", text>>, StatusLine >>]_vars
  /\ [](\A i \in 1..Len(lastWrite) :
          lastWrite[i][1] = "ansi" => i > 1 /\ lastWrite[i - 1] = CursorHome)
  /\ [][fromWorker # <<>> /\ Head(fromWorker) = "frame" /\ fromWorker' = Tail(fromWorker)
          => stdoutWrites' = stdoutWrites + 1]_vars

\* C23 witness: two frames were written, the second being the text of the
\* second request
C23_Witness ==
  /\ stdoutWrites = 2
  /\ completed = 2
  /\ lastWrite = << CursorHome, <<"ansi", 2>>, StatusLine >>

\* the worker takes a render request and sets the canvas up for it
SetsUp == rendered'.request # rendered.request

\* C24: in the render worker the canvas configuration is rebuilt for a request
\* if and only if its symbol set, colour mode, foreground-only flag, dither flag
\* or grid size differs from the previous request's, or no canvas exists yet;
\* the symbol map is rebuilt only when the symbol set differs; and at every
\* conversion the live canvas matches the settings of the request rendered.
C24_LazyCanvas ==
  [][SetsUp =>
       LET r == Head(renderRequests) IN
       /\ rendered'.request = r.seq
       /\ rendered'.config <=> (SettingsOf(r) # rendered.settings \/ ~canvas.live)
       /\ rendered'.map => r.symbols # rendered.settings.symbols
       /\ ~rendered'.config => canvas' = canvas
       /\ ~rendered'.map => symbolMap' = symbolMap
       /\ canvas'.live
       /\ canvas'.cols = r.termCols
       /\ canvas'.rows = r.termRows
       /\ canvas'.mode = CanvasMode(r.colors)
       /\ canvas'.map = SymbolTags(r.symbols)
       /\ canvas'.fgOnly = r.fgOnly
       /\ canvas'.dither = r.dither]_vars

\* C24 witness: a second request came with another symbol set and the same
\* grid: configuration and symbol map were rebuilt for it
C24_Witness ==
  /\ rendered.request = 2
  /\ rendered.config
  /\ rendered.map
  /\ canvas.map = "ascii"
  /\ canvas.fgOnly
  /\ canvas.cols = rendered.settings.termCols

\* a tick takes a core step: retro_run is entered
StepBegins == inCore # "run" /\ inCore' = "run"

\* C25: the pacing loop executes at most one core step per tick: a step is
\* entered only by a tick a timer ran (that timer is used up), the step
\* counter moves by one, at the return of that step, and the tick then re-arms
\* itself and ends; and a tick takes a step only if the bridge is Running and
\* the time elapsed since the reference time is at least one frame interval.
C25_OneStepPerTick ==
  /\ [][StepBegins =>
          /\ TimerFires
          /\ armedTicks' = armedTicks - 1
          /\ running
          /\ now - lastFrameTime >= FrameDurationMs(systemAVInfo)
          /\ hostFrameCount' = hostFrameCount]_vars
  /\ [][hostFrameCount' # hostFrameCount =>
          /\ hostFrameCount' = hostFrameCount + 1
          /\ inCore = "run"
          /\ inCore' = "none"
          /\ armedTicks' = armedTicks + 1]_vars

\* C25 witness: a second step has been entered, the first one counted
C25_Witness ==
  /\ inCore = "run"
  /\ cbCount = 0
  /\ running
  /\ hostFrameCount = 1
  /\ now - lastFrameTime < FrameDurationMs(systemAVInfo)

\* C26: whenever a tick executes a core step, the reference time is advanced
\* by exactly one frame interval, whatever has elapsed.
C26_ReferenceAdvancedByOneInterval ==
  [][StepBegins => lastFrameTime' = lastFrameTime + FrameDurationMs(systemAVInfo)]_vars

\* C26, amended: whenever a tick executes a core step, the reference time is
\* advanced by the whole number of frame intervals that have elapsed (to
\* now - (elapsed mod interval)), not by the full elapsed time; that is one
\* interval exactly when less than two intervals have elapsed.
C26_ReferenceAdvancedByWholeIntervals ==
  [][StepBegins =>
       LET dur == FrameDurationMs(systemAVInfo)
           elapsed == now - lastFrameTime
       IN  /\ lastFrameTime' = lastFrameTime + (elapsed \div dur) * dur
           /\ (elapsed < 2 * dur <=> lastFrameTime' = lastFrameTime + dur)]_vars

\* C26 witness: the first step, taken one interval and a fraction after the
\* loop started at time 0: the reference is one interval, not the time of
\* the tick
C26_Witness ==
  /\ inCore = "run"
  /\ cbCount = 0
  /\ hostFrameCount = 0
  /\ lastFrameTime = FrameDurationMs(systemAVInfo)
  /\ now = lastFrameTime + 1

\* C27: after a stall of any length the frames missed are not caught up: the
\* tick that follows takes one step and discards the excess, so that, on the
\* clock reading of that tick, less than one interval has elapsed since the
\* new reference (and the reference is not ahead of the clock): the next
\* step has to wait until the reference has aged a full interval again.
C27_NoBurstAfterStall ==
  /\ [][StepBegins =>
          /\ now' = now
          /\ lastFrameTime' <= now
          /\ now - lastFrameTime' < FrameDurationMs(systemAVInfo)
          /\ lastFrameTime' >= lastFrameTime + FrameDurationMs(systemAVInfo)]_vars
  /\ [](inCore = "none" /\ running /\ armedTicks > 0
          /\ now - lastFrameTime < FrameDurationMs(systemAVInfo)
          => ~ENABLED (Tick /\ inCore' = "run"))

\* C27 witness: the loop started at time 0 and its first step is taken two
\* intervals or more later
C27_Witness ==
  /\ inCore = "run"
  /\ cbCount = 0
  /\ hostFrameCount = 0
  /\ lastFrameTime >= 2 * FrameDurationMs(systemAVInfo)
  /\ now - lastFrameTime < FrameDurationMs(systemAVInfo)

\* the source pixel with the bits its encoding leaves unused cleared: the high
\* byte of XRGB8888, the top bit of 0RGB1555
WithoutUnusedBits(format, pixel) ==
  CASE format = "XRGB8888" -> << pixel[1] % 256, pixel[2] >>
    [] format = "0RGB1555" -> << 0, pixel[2] % 32768 >>
    [] OTHER -> pixel

\* every colour bit of the source pixel is set
FullWhite(format, pixel) ==
  CASE format = "XRGB8888" -> pixel = <<255, 65535>>
    [] format = "RGB565" -> pixel = <<0, 65535>>
    [] OTHER -> pixel = <<0, 32767>>

\* C28: for each of the three source encodings and every source pixel, the
\* converted pixel has alpha 255; a full-white source pixel converts to
\* (255,255,255,255) and a full-black one to (0,0,0,255); the bits the encoding
\* leaves unused (high byte of XRGB8888, top bit of 0RGB1555) do not affect
\* the result.
C28_PixelConversion ==
  rgbaPixel # <<>> =>
    LET used == WithoutUnusedBits(srcFormat, srcPixel) IN
    /\ Len(rgbaPixel) = 4
    /\ rgbaPixel[4] = 255
    /\ \A i \in 1..3 : rgbaPixel[i] \in 0..255
    /\ FullWhite(srcFormat, used) => rgbaPixel = <<255, 255, 255, 255>>
    /\ used = <<0, 0>> => rgbaPixel = <<0, 0, 0, 255>>
    /\ rgbaPixel = ConvertedPixel(srcFormat, used)

\* C28 witness: a 0RGB1555 pixel with every bit set, the unused top bit
\* included, was converted to opaque white
C28_Witness ==
  /\ srcFormat = "0RGB1555"
  /\ srcPixel = <<0, 65535>>
  /\ rgbaPixel = <<255, 255, 255, 255>>

\* a call of the converter
Converts == conversions' # conversions

C30_GridFits ==
  [][Posts => \A f \in FrameFormats, c \in FitColumns, r \in FitRows :
       OnFrameCall(f, 2, 1, c, r) =>
         LET cols == TermCols(c)
             rows == TermRows(r)
             n == displayAspectRatio[1]
             d == displayAspectRatio[2]
             usedCols == Posted.termCols
             usedRows == Posted.termRows
             fullWidthFits == cols * d <= rows * 2 * n
         IN
         /\ n > 0 /\ d > 0
         /\ usedCols \in 0..cols
         /\ usedRows \in 0..rows
         /\ fullWidthFits =>
              /\ usedCols = cols
              /\ usedRows * 2 * n <= cols * d
              /\ cols * d < (usedRows + 1) * 2 * n
         /\ ~fullWidthFits =>
              /\ usedRows = rows
              /\ usedCols * d <= rows * 2 * n
              /\ rows * 2 * n < (usedCols + 1) * d]_vars

\* C30 witness: a frame posted from a terminal of 80 columns with 20 rows
\* under the status line, at 4/3: the grid is 53 x 20
C30_Witness ==
  /\ displayAspectRatio = <<4, 3>>
  /\ renderRequests # <<>>
  /\ Head(renderRequests).termCols = 53
  /\ Head(renderRequests).termRows = 20

\* C38: the active pixel format is always one of the three supported
\* encodings: it starts as 0RGB1555 and is changed only by a SET_PIXEL_FORMAT
\* call that is accepted, to the encoding asked for; so every video refresh
\* with data is converted, by one of the three converters (opaque pixels come
\* out), and none goes through the switch without a case.
C38_FormatAlwaysSupported ==
  /\ pixelFormat = "0RGB1555"
  /\ [](pixelFormat \in {"0RGB1555", "XRGB8888", "RGB565"})
  /\ [][pixelFormat' # pixelFormat =>
          /\ EnvStep(CommandCode.SET_PIXEL_FORMAT)
          /\ cbRet' = 1
          /\ pixelFormat' = envOut'.arg]_vars
  /\ [][frameCount' # frameCount =>
          /\ conversions' = conversions + 1
          /\ convertedWith' \in {"0RGB1555", "XRGB8888", "RGB565"}
          /\ ConvertedPixel(convertedWith', <<0, 0>>) = <<0, 0, 0, 255>>]_vars

\* C38 witness: after an accepted request a frame was converted as XRGB8888
C38_Witness ==
  /\ pixelFormat = "XRGB8888"
  /\ convertedWith = "XRGB8888"
  /\ conversions > 0
  /\ lastData = "frame"

\* the number of pacing ticks armed or running
TickChains == armedTicks + (IF inCore = "run" THEN 1 ELSE 0)

C31_DescriptorApplied ==
  /\ [][loadPc # "audioInit" /\ loadPc' = "audioInit" =>
        \A fps \in FpsValues, aspect \in AspectValues :
          LoadGameReturn(1, fps, aspect) =>
            /\ systemAVInfo'.fps = fps
            /\ FrameDurationMs(systemAVInfo') * fps = 1000
            /\ displayAspectRatio' = (IF aspect[1] > 0 THEN aspect ELSE <<4, 3>>)]_vars
  /\ [][loadPc = "audioInit" => UNCHANGED <<systemAVInfo, displayAspectRatio>>]_vars
  /\ [][running => UNCHANGED <<systemAVInfo, displayAspectRatio>>]_vars
  /\ [][TimerFires /\ running /\ now' = now /\ inCore' # inCore =>
          (now - lastFrameTime) * systemAVInfo.fps >= 1000]_vars
  /\ [][TimerFires /\ running /\ now' = now /\ inCore' = inCore /\ tickDue' # tickDue =>
          (now - lastFrameTime) * systemAVInfo.fps < 1000]_vars

\* C31 witness: the loop runs at 250 frames per second with the aspect 1.333
\* of the descriptor on the video output, and has taken a step
C31_Witness ==
  /\ running
  /\ systemAVInfo.fps = 250
  /\ displayAspectRatio = <<1333, 1000>>
  /\ hostFrameCount = 1

\* C34 as stated: battery RAM is written on shutdown and loaded on start;
\* loadSRAM never fails the load and changes the region only to the content
\* of a save file of exactly the region's size; saveSRAM writes nothing for a
\* core without a region.
C34_SramPersisted ==
  [][ /\ (loadPc = "loadSRAM" /\ loadPc' # "loadSRAM")
         => /\ loadError' = loadError
            /\ loadPc' = "done"
            /\ (coreHasSram /\ saveFile.exists /\ saveFile.length = SramSize)
                 => sramData' = saveFile.data
            /\ ~(coreHasSram /\ saveFile.exists /\ saveFile.length = SramSize)
                 => sramData' = sramData
      /\ (loadPc # "loadSRAM" /\ inCore # "run") => sramData' = sramData
      /\ saveFile' # saveFile => coreHasSram
      /\ (~running /\ running') => "loadSRAM_done" \in Range(loadLog')
      /\ (shutdownPc # "done" /\ shutdownPc' = "done" /\ core # "null" /\ coreHasSram)
         => saveFile' = [exists |-> TRUE, length |-> SramSize, data |-> sramData] ]_vars

\* C34, amended: the same, the load on start and the write on shutdown being
\* those of a bridge that was given a save manager.
C34_SramPersistedWithManager ==
  [][ /\ (loadPc = "loadSRAM" /\ loadPc' # "loadSRAM")
         => /\ loadError' = loadError
            /\ loadPc' = "done"
            /\ (coreHasSram /\ saveFile.exists /\ saveFile.length = SramSize)
                 => sramData' = saveFile.data
            /\ ~(coreHasSram /\ saveFile.exists /\ saveFile.length = SramSize)
                 => sramData' = sramData
      /\ (loadPc # "loadSRAM" /\ inCore # "run") => sramData' = sramData
      /\ saveFile' # saveFile => coreHasSram
      /\ (saveManager /\ ~running /\ running') => "loadSRAM_done" \in Range(loadLog')
      /\ (saveManager /\ shutdownPc # "done" /\ shutdownPc' = "done" /\ core # "null"
            /\ coreHasSram)
         => saveFile' = [exists |-> TRUE, length |-> SramSize, data |-> sramData] ]_vars

\* a save file of the region's size was loaded, and written back at shutdown
C34_Witness ==
  /\ shutdownPc = "done"
  /\ "loadSRAM_done" \in Range(loadLog)
  /\ "sram_write" \in Range(shutdownLog)
  /\ sramData = "old"
  /\ saveFile = [exists |-> TRUE, length |-> SramSize, data |-> "old"]

\* a save file of another size was found: the region kept what the core put there
C34_WitnessMismatch ==
  /\ loadPc = "done"
  /\ "loadSRAM_done" \in Range(loadLog)
  /\ coreHasSram
  /\ saveFile.exists /\ saveFile.length # SramSize
  /\ sramData = "fresh"

\* every query a core can make of the joypad and analog devices, out-of-range
\* arguments included
AllQueries ==
  {<<Libretro.DEVICE_JOYPAD, 0, id>> : id \in (-1..16) \cup {Libretro.JOYPAD_MASK}}
    \cup {<<Libretro.DEVICE_ANALOG, index, id>> : index \in 0..2, id \in 0..2}
    \cup {<<0, 0, 0>>, <<3, 0, 0>>}

\* C32 as stated: whatever the port, device, index and id and whatever the
\* gamepads and the keyboard hold, the value the input-state callback returns
\* is in -32768..32767, the bitmask query included.
C32_Signed16 ==
  \A port \in {-1, 0, 1, 2}, q \in AllQueries :
    getState(port, q[1], q[2], q[3]) \in -32768..32767

\* C32, the part that holds: every query but the bitmask returns a value in
\* -32767..32767, and the bitmask query one in 0..65535.
C32_Signed16ButMask ==
  \A port \in {-1, 0, 1, 2}, q \in AllQueries :
    IF q[1] = Libretro.DEVICE_JOYPAD /\ q[3] = Libretro.JOYPAD_MASK
      THEN getState(port, q[1], q[2], q[3]) \in 0..65535
      ELSE getState(port, q[1], q[2], q[3]) \in -32767..32767

\* the button `id` read through the joypad device on `port`
Reads(port, id) == getState(port, Libretro.DEVICE_JOYPAD, 0, id) = 1

\* the gamepad of `port` in the last snapshot has the button of `id` down
PadDown(port, id) ==
  /\ GamepadAt(port).present
  /\ LIBRETRO_TO_W3C(id) < GamepadAt(port).count
  /\ LIBRETRO_TO_W3C(id) \in GamepadAt(port).pressed

\* the key window of every mapped joypad id, in one state
KeyWindows ==
  \A id \in {keyMap[k] : k \in DOMAIN keyMap} :
    /\ ~PadDown(0, id)
         => (Reads(0, id) <=> /\ keyLastPressed[id] # NoPress
                              /\ currentFrame - keyLastPressed[id] < 8)
    /\ \A port \in {1, 2} : Reads(port, id) <=> PadDown(port, id)

\* C35: a key press recorded at poll counter f makes its joypad button read
\* pressed, on port 0 only, exactly while the counter c has c - f < 8; from
\* the 8th poll after the press it reads released; a new press restarts the
\* window at the counter of that press.
C35_KeyWindow ==
  [][ /\ (currentFrame' # currentFrame \/ keyLastPressed' # keyLastPressed) => KeyWindows'
      /\ \A k \in InputKeys :
           PressKey(k) => /\ keyLastPressed'[keyMap[k]] = currentFrame
                          /\ Reads(0, keyMap[k])'
                          /\ ~PadDown(1, keyMap[k]) => ~Reads(1, keyMap[k])' ]_vars

\* z was pressed a second time, at counter 1, and at counter 9 the button B
\* was read released on port 0
C35_Witness ==
  /\ keyLastPressed[keyMap["z"]] = 1
  /\ currentFrame = 9
  /\ ~PadDown(0, keyMap["z"])
  /\ lastQuery = [port |-> 0, device |-> Libretro.DEVICE_JOYPAD, index |-> 0,
                  id |-> keyMap["z"], value |-> 0]

\* z was pressed at counter 1, and at counter 8 the button B was read pressed
C35_WitnessHeld ==
  /\ keyLastPressed[keyMap["z"]] = 1
  /\ currentFrame = 8
  /\ ~PadDown(0, keyMap["z"])
  /\ lastQuery = [port |-> 0, device |-> Libretro.DEVICE_JOYPAD, index |-> 0,
                  id |-> keyMap["z"], value |-> 1]

\* the bitwise OR of 1 << id over a set of distinct ids
RECURSIVE BitsOf(_)
BitsOf(ids) ==
  IF ids = {} THEN 0
  ELSE LET id == CHOOSE i \in ids : TRUE IN Shl1(id) + BitsOf(ids \ {id})

\* C37, first half: on every port the bitmask query returns the OR of 1 << id
\* over the ids 0..15 whose own query returns 1 in the same state.
C37_MaskIsOrOfButtons ==
  \A port \in {-1, 0, 1, 2} :
    getState(port, Libretro.DEVICE_JOYPAD, 0, Libretro.JOYPAD_MASK)
      = BitsOf({id \in JoypadIds : Reads(port, id)})

\* C37 as stated: the bitmask is that OR, and a query repeated with no poll
\* in between returns what it returned before.
C37_MaskAndPurity ==
  [][ /\ C37_MaskIsOrOfButtons
      /\ \A port \in Ports, q \in StateQueries :
           ( /\ InputStateCb(port, q[1], q[2], q[3])
             /\ lastQuery.port = port /\ lastQuery.device = q[1]
             /\ lastQuery.index = q[2] /\ lastQuery.id = q[3] )
             => lastQuery'.value = lastQuery.value ]_vars

\* a bitmask with a keyboard bit and gamepad bits was returned
C37_WitnessMask ==
  /\ lastQuery.port = 0
  /\ lastQuery.id = Libretro.JOYPAD_MASK
  /\ lastQuery.value = 32769
  /\ keyLastPressed[0] # NoPress
  /\ currentGamepads = <<PadPlayed>>

\* C36 as stated: a poll that does not see Start and Select both pressed (a
\* button released, or no gamepad) leaves the count at zero, and the signal is
\* raised only by a poll that ends a run of at least 30 polls in a row that
\* saw both pressed.
C36_ComboRestarts ==
  [][ currentFrame' = currentFrame + 1
        => /\ ~(Len(gamepads) > 0 /\ ComboPressed(gamepads)) => exitComboHeld' = 0
           /\ sigints' > sigints => comboRun' >= ExitComboFrames ]_vars

\* C36, the part that holds: with a gamepad present at every poll, the count
\* is the length of the run, and the signal is raised only from the 30th poll
\* of a run on.
C36_ComboRestartsWhilePresent ==
  [][ currentFrame' = currentFrame + 1
        => /\ (Len(gamepads) > 0 /\ ~ComboPressed(gamepads)) => exitComboHeld' = 0
           /\ Len(gamepads) = 0 => exitComboHeld' = exitComboHeld
           /\ sigints' > sigints => exitComboHeld' >= ExitComboFrames ]_vars

\* the signal was raised by a held combo
C36_WitnessRaised ==
  /\ sigints > 0
  /\ comboRun >= ExitComboFrames

\* C40: however many quit events arrive and from whichever sources, the
\* bridge's shutdown() is called at most once, and when the process has
\* exited the terminal has been restored.
C40_ShutdownOnceTerminalRestored ==
  /\ shutdownCalls <= 1
  /\ cliPc = "exited" => terminalRestores >= 1

\* three quit events from three sources, one of them the combo from inside
\* retro_run and one the ESC seen by both handlers; shutdown ran once, to its
\* end, and the process exited
C40_Witness ==
  /\ cliPc = "exited"
  /\ shutdownCalls = 1
  /\ shutdownPc = "done"
  /\ Len(quitEvents) = MaxQuitEvents
  /\ {"combo", "ESC_twice"} \subseteq Range(quitEvents)
  /\ Range(quitEvents) \cap {"SIGINT", "SIGTERM"} # {}

\* C33 as stated: when shutdown() has completed the render worker has been
\* released, after the string registry was freed and before the audio and
\* input devices are released.
C33_WorkerReleasedInOrder ==
  [][ (shutdownPc # "done" /\ shutdownPc' = "done")
        => /\ worker' = "null"
           /\ \E i, j, k \in 1..Len(shutdownLog') :
                /\ shutdownLog'[i] = "registry_released"
                /\ shutdownLog'[j] = "worker_terminate"
                /\ shutdownLog'[k] = "audio_destroy"
                /\ i < j /\ j < k ]_vars

====
